---------------------------- MODULE Spec2Model ----------------------------
(***************************************************************************)
(* A model of the ARDP protocol engine of alljoyn_core/router/             *)
(* ArdpProtocol.cc: the per-connection state machine, the send and         *)
(* receive rings, the EACK mask and the per-connection timer list.         *)
(*                                                                         *)
(* Conventions.                                                            *)
(*  - Every handler of the source is a pure operator over a "context"      *)
(*    record x = [c, env, tx, log, halt, st, ncb]: c is the connection     *)
(*    record, env what the surroundings do during the call (the socket,    *)
(*    the allocator, the answers of the user's callbacks), tx the          *)
(*    datagrams the handler has put on the socket, log the user callbacks  *)
(*    it has invoked, halt the reason the process stopped ("none" while    *)
(*    it runs), st the QStatus last returned and ncb the number of         *)
(*    RecvCb answers used up.                                              *)
(*  - A handler binds its context in a one-element set before it uses it,  *)
(*    CHOOSE out \in {rest : x \in {sofar}} : TRUE, so that the state the   *)
(*    statements so far have produced is computed once.                    *)
(*  - uint32_t sequence numbers are kept modulo 2^SeqBits; uint16_t        *)
(*    quantities keep their 16 bits.                                       *)
(*  - Time is abstract: a pending timer may expire at any moment, and the  *)
(*    firing of one timer is one step of CheckConnTimers.                  *)
(*  - build.ndebug says whether assert() is compiled out; build.le says    *)
(*    whether the host is little-endian (htons/ntohs swap bytes).          *)
(***************************************************************************)
EXTENDS Integers, Sequences, FiniteSets, TLC

VARIABLES
    build,      \* [ndebug, le, windowCb, accepting]: how the engine was built and set up
    conn,       \* Engines -> connection record (one record per handle)
    net,        \* Engines -> sequence of datagrams waiting on the socket
    wire,       \* datagrams emitted by the last step
    log,        \* Engines -> sequence of API calls and callbacks, in order
    halt,       \* Engines -> "none", or why the process stopped
    nsteps      \* number of bounded environment steps taken so far

vars == <<build, conn, net, wire, log, halt, nsteps>>

Engines == {"A", "B"}

Peer(e) == IF e = "A" THEN "B" ELSE "A"

-----------------------------------------------------------------------------
(* Bounds of the model *)

SeqBits == 4
MaxSteps == 2
MaxSends == 2
SndRing == 2
TimeBits == 20

-----------------------------------------------------------------------------
(* Program constants *)

ARDP_TIMWAIT == 1000
ARDP_CONNECT_TIMEOUT == 10000
ARDP_WINDOW_CHECK_TIMEOUT == 5000
ARDP_RETRANSMIT_TIMEOUT == 500
ARDP_URGENT_RETRANSMIT_TIMEOUT == 125
ARDP_RETRANSMIT_RETRY == 4
ARDP_RECV_TIMEOUT == 300
ARDP_RECV_RETRY == 4
ARDP_DISCONNECT_RETRY == 0
ARDP_CONNECT_RETRY == 0
ARDP_RETRY_ALWAYS == 65535
ARDP_FIXED_HEADER_LEN == 26
ALLJOYN_MAX_PACKET_LEN == 135168
IpUdpOverhead == 28
U16 == 65536

-----------------------------------------------------------------------------
(* Integer widths and byte order *)

RECURSIVE Pow2(_)
Pow2(n) == IF n = 0 THEN 1 ELSE 2 * Pow2(n - 1)

SeqMod == Pow2(SeqBits)

Add32(a, b) == (a + b) % SeqMod
Sub32(a, b) == (a - b) % SeqMod
Trunc16(a) == a % U16

\* The value of (uint32_t)(-1) % m, computed without leaving TLC's integers.
MinusOneMod(m) == (((U16 % m) * (U16 % m)) + m - 1) % m

SEQ32_LT(a, b) == 2 * Sub32(a, b) >= SeqMod
SEQ32_LET(a, b) == SEQ32_LT(a, b) \/ a = b

IN_RANGE(beg, sz, p) ==
    LET end == Add32(beg, sz)
    IN  \/ (end > beg /\ p >= beg /\ p < end)
        \/ (end < beg /\ ~(p < beg /\ p >= end))

Swap16(x) == (x % 256) * 256 + (x \div 256)

RECURSIVE RevBits(_, _)
RevBits(x, n) == IF n = 0 THEN 0 ELSE (x % 2) * Pow2(n - 1) + RevBits(x \div 2, n - 1)

\* Byte reversal of a sequence number, at the model's width (one bit per byte).
SwapSeq == [x \in 0..(SeqMod - 1) |-> RevBits(x, SeqBits)]

Htons(x) == IF build.le THEN Swap16(x) ELSE x
Ntohs(x) == IF build.le THEN Swap16(x) ELSE x
Htonl(x) == IF build.le THEN SwapSeq[x] ELSE x
Ntohl(x) == IF build.le THEN SwapSeq[x] ELSE x

\* (n + 31) >> 5
MaskWords(n) == (n + 31) \div 32


-----------------------------------------------------------------------------
(* Connection record, rings, contexts *)

NoTimer == 0

\* One ArdpRcvBuf after InitRcv: zeroed, isDelivered set, next = (i + 1) % segmax.
RcvSlot0 ==
    [seq |-> 0, datalen |-> 0, inUse |-> FALSE, isDelivered |-> TRUE,
     som |-> 0, fcnt |-> 0, timer |-> NoTimer, buf |-> 0]

\* One ArdpSndBuf after InitSBUF: zeroed, hdr pointing at a zeroed header.
SndSlot0 ==
    [data |-> 0, datalen |-> 0, timer |-> NoTimer, ttl |-> 0,
     onTheWire |-> FALSE, inUse |-> FALSE,
     hdr |-> [flags |-> {}, seq |-> 0, som |-> 0, fcnt |-> 0, dlen |-> 0]]

\* A zeroed ArdpConnRecord that is on no list.
NewConnRecord ==
    [inList |-> FALSE, State |-> "NONE", passive |-> FALSE,
     SND |-> [NXT |-> 0, UNA |-> 0, MAX |-> 0, ISS |-> 0],
     SBUF |-> [MAX |-> 0, snd |-> <<>>, maxDlen |-> 0, pending |-> 0],
     RCV |-> [CUR |-> 0, MAX |-> 0, IRS |-> 0],
     RBUF |-> [MAX |-> 0, rcv |-> <<>>, first |-> 0, last |-> 0, window |-> 0],
     local |-> 0, foreign |-> 0, window |-> 0, minSendWindow |-> 0,
     sndHdrLen |-> 0, rcvHdrLen |-> 0,
     rcvMsk |-> [mask |-> {}, htnMask |-> {}, sz |-> 0, fixedSz |-> 0],
     remoteMskSz |-> 0, timers |-> <<>>]

\* The ring size and the buffer size the user passes to ARDP_Connect and
\* ARDP_Accept: four slots of two payload bytes each.
UserSegmax == 4
UserSegbmax == 60

\* What the environment decides during one step: the result of sendmsg(), whether
\* a ttl has run out since tStart, the answers of the user's RecvCb (the k-th
\* invocation of the step gets ans[k], later ones the last answer), what the
\* user's AcceptCb does (and the arguments of its ARDP_Accept), how long the peer
\* has been silent, whether malloc fails and whether undefined behaviour shows up
\* as a crash.
Quiet == [sock |-> "ok", ttlx |-> FALSE, ans |-> <<TRUE>>, accept |-> "now",
          idle |-> "fresh", oom |-> FALSE, ub |-> FALSE,
          segmax |-> UserSegmax, segbmax |-> UserSegbmax, buf |-> 1, len |-> 1]


Ctx(c, env, lg) ==
    [c |-> c, env |-> env, tx |-> <<>>, log |-> lg, halt |-> "none", st |-> "ER_OK", ncb |-> 0]

\* Sequencing of statements is written CHOOSE out \in {rest : x \in {sofar}} : TRUE
\* throughout: the state after the statements so far is computed once, and the
\* rest of the function reads it under the name x.

Running(x) == x.halt = "none"

\* assert(cond): stops the process unless asserts are compiled out.
Expect(x0, cond, label) ==
    CHOOSE out \in {
        IF ~Running(x) \/ cond \/ build.ndebug THEN x ELSE [x EXCEPT !.halt = label]
            : x \in {x0}} : TRUE

\* A NULL dereference.
Crash(x0, label) ==
    CHOOSE out \in {IF Running(x) THEN [x EXCEPT !.halt = label] ELSE x : x \in {x0}} : TRUE

\* Undefined behaviour: a crash, or no visible effect.
Undefined(x0, label) ==
    CHOOSE out \in {IF Running(x) /\ x.env.ub THEN [x EXCEPT !.halt = label] ELSE x : x \in {x0}} : TRUE

SetC(x0, c) == CHOOSE out \in {IF Running(x) THEN [x EXCEPT !.c = c] ELSE x : x \in {x0}} : TRUE
SetSt(x0, st) == CHOOSE out \in {IF Running(x) THEN [x EXCEPT !.st = st] ELSE x : x \in {x0}} : TRUE
Logged(x0, ev) ==
    CHOOSE out \in {IF Running(x) THEN [x EXCEPT !.log = Append(@, ev)] ELSE x : x \in {x0}} : TRUE

SetState(x0, state) == CHOOSE out \in {SetC(x, [x.c EXCEPT !.State = state]) : x \in {x0}} : TRUE

-----------------------------------------------------------------------------
(* Timers *)

TimerIds(c) == {c.timers[i].id : i \in 1..Len(c.timers)}

\* new ArdpTimer(): the allocator hands out the lowest free address.
FreshTimer(c) == CHOOSE n \in 1..(Len(c.timers) + 1) : n \notin TimerIds(c)

TimerOf(c, id) == CHOOSE t \in {c.timers[i] : i \in 1..Len(c.timers)} : t.id = id

\* The timer list of c with a new timer appended to it.
NewTimer(c, type, context, timeout, retry) ==
    [c EXCEPT !.timers =
        Append(@, [id |-> FreshTimer(c), type |-> type,
                   context |-> IF type = "WINDOW_CHECK_TIMER" THEN FreshTimer(c) ELSE context,
                   delta |-> timeout, retry |-> retry])]

\* The caller reads the pointer it gets back as FreshTimer of the list before the call.
AddTimer(x0, type, context, timeout, retry) ==
    CHOOSE out \in {SetC(x, NewTimer(x.c, type, context, timeout, retry)) : x \in {x0}} : TRUE

\* DeList + delete. A NULL timer faults; a timer that is no longer on the list
\* is a double free.
DeleteTimer(x0, id) ==
    CHOOSE out \in {
        IF ~Running(x) THEN x
        ELSE IF id = NoTimer THEN Crash(x, "segv:DeleteTimer")
        ELSE IF id \notin TimerIds(x.c) THEN Undefined(x, "ub:DeleteTimer")
        ELSE SetC(x, [x.c EXCEPT !.timers = SelectSeq(@, LAMBDA t : t.id /= id)])
        : x \in {x0}} : TRUE

\* Deletes the first timer of the type (context is always NULL at the call sites).
CancelTimer(x0, type) ==
    CHOOSE out \in {
        LET hits == {i \in 1..Len(x.c.timers) : x.c.timers[i].type = type}
        IN  IF ~Running(x) \/ hits = {} THEN x
            ELSE DeleteTimer(x, x.c.timers[CHOOSE j \in hits : \A k \in hits : j <= k].id)
        : x \in {x0}} : TRUE

CancelAllTimers(x0) == CHOOSE out \in {SetC(x, [x.c EXCEPT !.timers = <<>>]) : x \in {x0}} : TRUE

SetTimer(x0, id, field, value) ==
    CHOOSE out \in {
        IF ~Running(x) THEN x
        ELSE IF id = NoTimer THEN Crash(x, "segv:timer")
        ELSE IF id \notin TimerIds(x.c) THEN Undefined(x, "ub:timer")
        ELSE SetC(x, [x.c EXCEPT !.timers =
                [i \in 1..Len(@) |->
                    IF @[i].id = id THEN [@[i] EXCEPT ![field] = value] ELSE @[i]]])
        : x \in {x0}} : TRUE

\* The record is freed: only the state it was destroyed in is kept, for inspection.
DelConnRecord(x0) ==
    CHOOSE out \in {
        SetC(Expect(x, x.c.State = "CLOSED", "assert:DelConnRecord"),
             [NewConnRecord EXCEPT !.State = x.c.State, !.passive = x.c.passive])
        : x \in {x0}} : TRUE

\* ARDP_FreeHandle destroys every record of the handle, then the handle: no call
\* can be made on it afterwards.
ARDP_FreeHandle(x0) ==
    CHOOSE out \in {
        IF ~Running(x) THEN x ELSE [x EXCEPT !.halt = "freed"]
        : x \in {IF x0.c.inList THEN DelConnRecord(x0) ELSE x0}} : TRUE

-----------------------------------------------------------------------------
(* Putting segments on the socket *)

Datagram(syn, flags, hlen, src, dst, dlen, seq, ack, window) ==
    [syn |-> syn, flags |-> flags, hlen |-> hlen, src |-> src, dst |-> dst,
     dlen |-> dlen, seq |-> seq, ack |-> ack, window |-> window,
     som |-> 0, fcnt |-> 0, ackMsk |-> {}, buf |-> 0, segmax |-> 0, segbmax |-> 0]

\* sendmsg(): the datagram leaves, or the socket reports EAGAIN or an error.
SendMsg(x0, d) ==
    CHOOSE out \in {
        IF ~Running(x) THEN x
        ELSE IF x.env.sock = "ok" THEN [x EXCEPT !.tx = Append(@, d), !.st = "ER_OK"]
        ELSE IF x.env.sock = "wouldblock" THEN [x EXCEPT !.st = "ER_WOULDBLOCK"]
        ELSE [x EXCEPT !.st = "ER_FAIL"]
        : x \in {x0}} : TRUE

SendMsgHeader(x0, h) ==
    CHOOSE out \in {
        SendMsg(x, [h EXCEPT !.flags = IF x.c.rcvMsk.sz /= 0 THEN @ \cup {"EACK"} ELSE @,
                             !.ackMsk = x.c.rcvMsk.htnMask])
        : x \in {x0}} : TRUE

\* som and fcnt of the header on the stack are never written: the receiver reads
\* them only for a segment with data, and this one has none.
Send(x0, flags, seq, ack, window) ==
    CHOOSE out \in {
        SendMsgHeader(x, Datagram(FALSE, flags, x.c.sndHdrLen \div 2, Htons(x.c.local),
                                  Htons(x.c.foreign), 0, Htonl(seq), Htonl(ack),
                                  Htons(Trunc16(window))))
        : x \in {x0}} : TRUE

SendMsgData(x0, index) ==
    CHOOSE out \in {
        IF ~Running(x) THEN x
        ELSE
        LET sndBuf == x.c.SBUF.snd[index]
            h == sndBuf.hdr
            flags == IF x.c.rcvMsk.sz = 0 THEN h.flags \ {"EACK"} ELSE h.flags \cup {"EACK"}
            d == [Datagram(FALSE, flags, x.c.sndHdrLen \div 2, Htons(x.c.local),
                           Htons(x.c.foreign), h.dlen, h.seq, Htonl(x.c.RCV.CUR),
                           Htons(Trunc16(x.c.RBUF.window)))
                    EXCEPT !.som = h.som, !.fcnt = h.fcnt, !.ackMsk = x.c.rcvMsk.htnMask,
                           !.buf = sndBuf.data]
        IN  IF sndBuf.ttl /= 0 /\ ~sndBuf.onTheWire /\ x.env.ttlx
            THEN SetSt(SetC(x, [x.c EXCEPT !.SBUF.snd[index].hdr.flags = flags]),
                       "ER_ARDP_TTL_EXPIRED")
            ELSE SendMsg(SetC(x, [x.c EXCEPT !.SBUF.snd[index].hdr.flags = flags,
                                             !.SBUF.snd[index].onTheWire = TRUE]), d)
        : x \in {x0}} : TRUE

-----------------------------------------------------------------------------
(* Initialisation of a connection record *)

Ring(n, slot) == [i \in 0..(n - 1) |-> slot]

\* random() for the initial sequence number is the input iss.
InitSnd(c, iss) ==
    [c EXCEPT !.SND = [ISS |-> iss, NXT |-> Add32(iss, 1), UNA |-> iss, MAX |-> 0]]

InitRcv(x0, segmax, segbmax) ==
    CHOOSE out \in {
        IF ~Running(x) THEN x
        ELSE IF x.env.oom THEN SetSt(x, "ER_OUT_OF_MEMORY")
        ELSE SetSt(SetC(x, [x.c EXCEPT !.RCV.MAX = segmax, !.RBUF.MAX = segbmax,
                                      !.RBUF.window = segmax,
                                      !.RBUF.rcv = Ring(segmax, RcvSlot0)]), "ER_OK")
        : x \in {x0}} : TRUE

PostInitRcv(x0) ==
    CHOOSE out \in {
        SetC(x, [x.c EXCEPT !.RBUF.first = Add32(x.c.RCV.CUR, 1),
                            !.RBUF.last = Add32(x.c.RCV.CUR, 1),
                            !.RBUF.rcv = [i \in DOMAIN @ |-> [@[i] EXCEPT !.seq = x.c.RCV.IRS]]])
        : x \in {x0}} : TRUE

\* random() for the ephemeral port is the input local.
InitConnRecord(c, iss, local, foreign) ==
    [InitSnd(c, iss) EXCEPT !.State = "CLOSED", !.local = local, !.foreign = foreign,
                            !.timers = <<>>, !.sndHdrLen = ARDP_FIXED_HEADER_LEN,
                            !.rcvHdrLen = ARDP_FIXED_HEADER_LEN]

\* A failed malloc leaves SBUF.snd NULL: the send ring stays empty.
InitSBUF(x0) ==
    CHOOSE out \in {
        IF ~Running(x) THEN x
        ELSE
        LET c == x.c
            ackMaskSize == MaskWords(c.RCV.MAX)
            hdrLen == (ARDP_FIXED_HEADER_LEN + ackMaskSize * 4) % 256
            maxDlen == Trunc16(c.SBUF.MAX - IpUdpOverhead - hdrLen)
            c1 == [c EXCEPT !.sndHdrLen = hdrLen, !.rcvMsk.fixedSz = ackMaskSize,
                            !.SBUF.maxDlen = maxDlen]
            c2 == [c1 EXCEPT !.SBUF.snd = Ring(c.SND.MAX, SndSlot0)]
        IN  IF c.SBUF.MAX < IpUdpOverhead + hdrLen THEN SetSt(SetC(x, c1), "ER_FAIL")
            ELSE IF x.env.oom THEN SetSt(SetC(x, c1), "ER_OUT_OF_MEMORY")
            ELSE IF maxDlen = 0 THEN Crash(SetC(x, c2), "sigfpe:InitSBUF")
            ELSE SetSt(SetC(x, [c2 EXCEPT !.minSendWindow =
                            Trunc16((ALLJOYN_MAX_PACKET_LEN + (maxDlen - 1)) \div maxDlen)]),
                       "ER_OK")
        : x \in {x0}} : TRUE

-----------------------------------------------------------------------------
(* ARDP_Disconnect *)

ARDP_Disconnect(x0) ==
    CHOOSE out \in {
        IF ~Running(x) THEN x
        ELSE IF ~x.c.inList \/ x.c.State = "CLOSED" \/ x.c.State = "CLOSE_WAIT"
        THEN SetSt(x, "ER_ARDP_INVALID_STATE")
        ELSE IF x.c.State = "OPEN"
        THEN Send(SetState(AddTimer(x, "DISCONNECT_TIMER", 0, ARDP_TIMWAIT,
                                    ARDP_DISCONNECT_RETRY), "CLOSE_WAIT"),
                  {"RST", "VER"}, x.c.SND.NXT, x.c.RCV.CUR, x.c.RBUF.window)
        ELSE SetSt(AddTimer(SetState(x, "CLOSED"), "DISCONNECT_TIMER", 0, 0,
                            ARDP_DISCONNECT_RETRY), "ER_OK")
        : x \in {x0}} : TRUE

-----------------------------------------------------------------------------
(* The send ring *)

\* conn->SBUF.snd[index]; an index past the end of the array reads other memory.
InSnd(c, index) == index \in DOMAIN c.SBUF.snd
SndAt(c, index) == IF InSnd(c, index) THEN c.SBUF.snd[index] ELSE SndSlot0

\* The statements of one iteration of the loop of SendData up to the call of
\* SendMsgData, for fragment i of fcnt.
SendDataFill(x0, i, fcnt, som, lastLen, buf, ttl) ==
    CHOOSE out \in {
        LET c == x.c
            index == Trunc16(c.SND.NXT % c.SND.MAX)
            segLen == IF i = fcnt - 1 THEN lastLen ELSE c.SBUF.maxDlen
            hdr == [flags |-> IF fcnt > 1 THEN {"ACK", "VER", "FRAG"} ELSE {"ACK", "VER"},
                    som |-> som, fcnt |-> Htons(fcnt), dlen |-> Htons(segLen),
                    seq |-> Htonl(c.SND.NXT)]
        IN  Expect(SetC(Expect(x, Sub32(c.SND.NXT, c.SND.UNA) < c.SND.MAX,
                               "assert:SendData:window"),
                        [c EXCEPT !.SBUF.snd[index] =
                            [@ EXCEPT !.hdr = hdr, !.ttl = ttl, !.data = buf,
                                      !.datalen = segLen]]),
                   c.SBUF.pending < c.SND.MAX, "assert:SendData:pending")
        : x \in {x0}} : TRUE

\* The statements of the iteration after SendMsgData has returned; r = [x,
\* timeout, stop] is the state of the loop and index the slot that was filled.
SendDataSent(x0, r, index) ==
    CHOOSE out \in {
        LET timeout == IF x.st = "ER_WOULDBLOCK" THEN ARDP_URGENT_RETRANSMIT_TIMEOUT
                       ELSE r.timeout
            status == IF x.st = "ER_WOULDBLOCK" THEN "ER_OK" ELSE x.st
        IN  IF ~Running(x) THEN [r EXCEPT !.x = x]
            ELSE IF status = "ER_OK"
            THEN [x |-> SetC(SetSt(x, status),
                             [NewTimer(x.c, "RETRANSMIT_TIMER", index, timeout,
                                       ARDP_RETRANSMIT_RETRY + 1)
                                 EXCEPT !.SBUF.snd[index].timer = FreshTimer(x.c),
                                        !.SBUF.pending = Trunc16(@ + 1),
                                        !.SND.NXT = Add32(@, 1),
                                        !.SBUF.snd[index].inUse = TRUE]),
                  timeout |-> timeout, stop |-> FALSE]
            ELSE IF status /= "ER_ARDP_TTL_EXPIRED"
            THEN [x |-> SetSt(ARDP_Disconnect(x), status), timeout |-> timeout, stop |-> TRUE]
            ELSE [x |-> x, timeout |-> timeout, stop |-> FALSE]
        : x \in {x0}} : TRUE

\* One iteration of the loop of SendData. A ring that was never allocated is
\* written through a NULL pointer.
SendDataStep(r0, i, fcnt, som, lastLen, buf, ttl) ==
    CHOOSE out \in {
        IF ~Running(r.x) \/ r.stop THEN r
        ELSE IF r.x.c.SBUF.snd = <<>> THEN [r EXCEPT !.x = Crash(r.x, "segv:SendData")]
        ELSE SendDataSent(SendMsgData(SendDataFill(r.x, i, fcnt, som, lastLen, buf, ttl),
                                      Trunc16(r.x.c.SND.NXT % r.x.c.SND.MAX)),
                          r, Trunc16(r.x.c.SND.NXT % r.x.c.SND.MAX))
        : r \in {r0}} : TRUE

RECURSIVE SendDataLoop(_, _, _, _, _, _, _)
SendDataLoop(r0, i, fcnt, som, lastLen, buf, ttl) ==
    CHOOSE out \in {
        IF i >= fcnt THEN r
        ELSE SendDataLoop(SendDataStep(r, i, fcnt, som, lastLen, buf, ttl),
                          i + 1, fcnt, som, lastLen, buf, ttl)
        : r \in {r0}} : TRUE

\* buf is the user's buffer; every fragment is handed the same pointer segData = buf.
SendData(x0, buf, len, ttl) ==
    CHOOSE out \in {
        IF ~Running(x) THEN x
        ELSE
        LET c == x.c
            som == Htonl(c.SND.NXT)
            one == len <= c.SBUF.maxDlen
            fcnt == IF one THEN 1
                    ELSE Trunc16((len + (c.SBUF.maxDlen - 1)) \div c.SBUF.maxDlen)
            lastLen == IF one THEN len ELSE len % c.SBUF.maxDlen
        IN  IF ~(Sub32(c.SND.NXT, c.SND.UNA) < c.SND.MAX) THEN SetSt(x, "ER_ARDP_BACKPRESSURE")
            ELSE IF ~one /\ fcnt > c.SND.MAX THEN SetSt(x, "ER_FAIL")
            ELSE IF ~one /\ fcnt > c.window THEN SetSt(x, "ER_ARDP_BACKPRESSURE")
            ELSE SendDataLoop([x |-> SetSt(x, "ER_OK"), timeout |-> ARDP_RETRANSMIT_TIMEOUT,
                               stop |-> FALSE], 0, fcnt, som, lastLen, buf, ttl).x
        : x \in {x0}} : TRUE

SendCb(x, buf, len, status) ==
    Logged(x, [cb |-> "SendCb", buf |-> buf, len |-> len, status |-> status])

\* One iteration of the loop of FlushAckedSegments, for slot i. A ring that was
\* never allocated is read through a NULL pointer.
FlushStep(x0, i, ack) ==
    CHOOSE out \in {
        IF ~Running(x) THEN x
        ELSE IF ~InSnd(x.c, i) THEN Crash(x, "segv:FlushAckedSegments")
        ELSE
        LET c == x.c
            slot == c.SBUF.snd[i]
            h == slot.hdr
            seq == Ntohl(h.seq)
            fcnt == Ntohs(h.fcnt)
            index == Trunc16(Ntohl(h.som) % c.SND.MAX)
            len == c.SBUF.maxDlen * (fcnt - 1) + Ntohs(h.dlen)
            freed == CHOOSE out \in {
                              SetC(x1, [x1.c EXCEPT !.SBUF.snd[i].timer = NoTimer,
                                                    !.SBUF.snd[i].inUse = FALSE,
                                                    !.SBUF.pending = Trunc16(@ - 1)])
                              : x1 \in {IF slot.timer /= NoTimer THEN DeleteTimer(x, slot.timer)
                                  ELSE x}} : TRUE
        IN  IF ~(SEQ32_LET(seq, ack) /\ slot.inUse) THEN x
            ELSE IF "FRAG" \in h.flags
            THEN IF Ntohl(h.seq) /= Add32(Ntohl(h.som), fcnt) THEN freed
                 ELSE SendCb(freed, c.SBUF.snd[index].data, len, "ER_OK")
            ELSE SendCb(freed, slot.data, slot.datalen, "ER_OK")
        : x \in {x0}} : TRUE

RECURSIVE FlushLoop(_, _, _)
FlushLoop(x0, i, ack) ==
    CHOOSE out \in {
        IF i >= x.c.SND.MAX THEN x ELSE FlushLoop(FlushStep(x, i, ack), i + 1, ack) : x \in {x0}} : TRUE

FlushAckedSegments(x, ack) == FlushLoop(x, 0, ack)


\* A 32-bit mask word is the set of its set bits, bit 0 being the most
\* significant one; htonl and ntohl reverse its four bytes.
SwapMask(m) == {(3 - (p \div 8)) * 8 + (p % 8) : p \in m}
HtonlMask(m) == IF build.le THEN SwapMask(m) ELSE m
NtohlMask(m) == IF build.le THEN SwapMask(m) ELSE m

\* while (mask32 != 0): bit k of the word is looked at with index = first + k.
RECURSIVE CancelEackLoop(_, _, _, _)
CancelEackLoop(x0, mask32, first, k) ==
    CHOOSE out \in {
        IF ~Running(x) \/ (\A p \in mask32 : p < k) THEN x
        ELSE
        LET index == first + k
            timer == SndAt(x.c, index).timer
        IN  CancelEackLoop(
                IF ~InSnd(x.c, index) THEN Undefined(x, "ub:CancelEackedSegments:index")
                ELSE IF k \in mask32 /\ timer /= NoTimer
                THEN CHOOSE out \in {
                                      SetC(x2, [x2.c EXCEPT !.SBUF.snd[index].timer = NoTimer])
                                          : x2 \in {DeleteTimer(Expect(x, index < x.c.SND.MAX,
                                              "assert:CancelEackedSegments"), timer)}} : TRUE
                ELSE x,
                mask32, first, k + 1)
        : x \in {x0}} : TRUE

\* ackMsk is the mask word of the received header (remoteMskSz is 0 or 1 here).
\* A ring that was never allocated is read through a NULL pointer.
CancelEackedSegments(x0, ackMsk) ==
    CHOOSE out \in {
        IF ~Running(x) THEN x
        ELSE IF x.c.SBUF.snd = <<>> THEN Crash(x, "segv:CancelEackedSegments")
        ELSE
        LET c == x.c
            timer == c.SBUF.snd[Trunc16(c.SND.UNA % c.SND.MAX)].timer
            \* timer->when = timer->when - timer->delta
            prior == IF timer /= NoTimer /\ timer \notin TimerIds(c)
                     THEN Undefined(x, "ub:timer") ELSE x
            start == Add32(c.SND.UNA, 1)
        IN  IF c.remoteMskSz = 0 THEN prior
            ELSE CancelEackLoop(prior, NtohlMask(ackMsk), Trunc16(start % c.SND.MAX), 0)
        : x \in {x0}} : TRUE

\* The first half of one iteration of the loop that invalidates the fragments
\* of a message: the slot at index is given up.
RetransmitFragInvalidate(x0, index) ==
    CHOOSE out \in {
        LET slot == SndAt(x.c, index)
            checked == Expect(IF InSnd(x.c, index) THEN x
                              ELSE Undefined(x, "ub:RetransmitTimerHandler:index"),
                              "FRAG" \in slot.hdr.flags, "assert:RetransmitTimerHandler:frag")
        IN  CHOOSE out \in {
                     SetC(x2, [x2.c EXCEPT !.SBUF.pending = Trunc16(@ - 2),
                                           !.SBUF.snd = IF InSnd(x2.c, index)
                                                        THEN [@ EXCEPT ![index].inUse = FALSE]
                                                        ELSE @])
                     : x2 \in {IF slot.timer /= NoTimer THEN SetTimer(checked, slot.timer, "retry",
                         0) ELSE checked}} : TRUE
        : x \in {x0}} : TRUE

\* The second half: the timer that fired is deleted if the slot at next has one.
RetransmitFragCancel(x0, next, fired) ==
    CHOOSE out \in {
        IF ~InSnd(x.c, next) THEN Undefined(x, "ub:RetransmitTimerHandler:index")
        ELSE IF x.c.SBUF.snd[next].timer /= NoTimer
        THEN CHOOSE out \in {
                              SetC(x2, [x2.c EXCEPT !.SBUF.snd[next].timer = NoTimer])
                                  : x2 \in {DeleteTimer(x, fired)}} : TRUE
        ELSE x
        : x \in {x0}} : TRUE

\* One iteration of the loop that invalidates the fragments of a message.
\* r = [x, index, h]; fired is the timer that is being handled.
RetransmitFragStep(r0, fired) ==
    CHOOSE out \in {
        IF ~Running(r.x) THEN r
        ELSE [x |-> RetransmitFragCancel(RetransmitFragInvalidate(r.x, r.index),
                                         Trunc16((r.index + 1) % r.x.c.RBUF.MAX), fired),
              index |-> Trunc16((r.index + 1) % r.x.c.RBUF.MAX),
              h |-> SndAt(r.x.c, r.index).hdr]
        : r \in {r0}} : TRUE

RECURSIVE RetransmitFragLoop(_, _, _, _)
RetransmitFragLoop(r0, fired, i, fcnt) ==
    CHOOSE out \in {
        IF i >= fcnt THEN r
        ELSE RetransmitFragLoop(RetransmitFragStep(r, fired), fired, i + 1, fcnt)
        : r \in {r0}} : TRUE

\* The branch of RetransmitTimerHandler that sends the segment once more.
RetransmitAgain(x0, timer, retry) ==
    CHOOSE out \in {
        SetTimer(IF x.st = "ER_WOULDBLOCK"
                 THEN SetTimer(x, timer, "delta", ARDP_URGENT_RETRANSMIT_TIMEOUT)
                 ELSE IF x.st = "ER_OK"
                 THEN SetTimer(x, timer, "delta", ARDP_RETRANSMIT_TIMEOUT)
                 ELSE x,
                 timer, "retry", retry)
        : x \in {x0}} : TRUE

\* The branch of RetransmitTimerHandler that gives the message up.
RetransmitGiveUp(x0, context, timer) ==
    CHOOSE out \in {
        LET snd == x.c.SBUF.snd[context]
            h == snd.hdr
            fcnt == Ntohs(h.fcnt)
            index == Trunc16(Ntohl(h.som) % x.c.RBUF.MAX)
            cleared == CHOOSE out \in {
                                SetC(x2, [x2.c EXCEPT !.SBUF.snd[context].timer = NoTimer])
                                    : x2 \in {SetTimer(x, timer, "retry", 0)}} : TRUE
        IN  IF "FRAG" \in h.flags
            THEN CHOOSE out \in {
                          SendCb(r.x, SndAt(x.c, index).data,
                                 r.x.c.SBUF.maxDlen * (fcnt - 1) + Ntohs(r.h.dlen), "ER_FAIL")
                          : r \in {RetransmitFragLoop( [x |-> IF InSnd(x.c, index) THEN cleared
                              ELSE Undefined(cleared, "ub:RetransmitTimerHandler:index"),
                              index |-> index, h |-> h], timer, 0, fcnt)}} : TRUE
            ELSE SendCb(cleared, snd.data, snd.datalen, "ER_FAIL")
        : x \in {x0}} : TRUE

\* context is the index of the send slot the timer was armed for.
RetransmitTimerHandler(x0, context) ==
    CHOOSE out \in {
        IF ~Running(x) THEN x
        ELSE
        LET snd == x.c.SBUF.snd[context]
            timer == snd.timer
        IN  CHOOSE out \in {
                IF ~Running(x1) THEN x1
                ELSE IF timer = NoTimer THEN Crash(x1, "segv:RetransmitTimerHandler")
                ELSE IF timer \notin TimerIds(x1.c)
                THEN Undefined(x1, "ub:RetransmitTimerHandler")
                ELSE IF TimerOf(x1.c, timer).retry > 1
                THEN RetransmitAgain(SendMsgData(x1, context), timer,
                                     TimerOf(x1.c, timer).retry - 1)
                ELSE RetransmitGiveUp(x1, context, timer)
                : x1 \in {Expect(x, snd.inUse, "assert:RetransmitTimerHandler:inUse")}} : TRUE
        : x \in {x0}} : TRUE

-----------------------------------------------------------------------------
(* The receive ring *)

\* A uint32_t difference of two sequence numbers, read back at full width: a
\* difference in the upper half of the scaled range stands for 2^32 - k.
Wide(d) == IF 2 * d >= SeqMod THEN d - SeqMod ELSE d

\* conn->RCV.MAX - ((conn->RBUF.last - conn->RBUF.first) + 1), stored in 16 bits.
RcvWindow(c) == Trunc16(c.RCV.MAX - (Wide(Sub32(c.RBUF.last, c.RBUF.first)) + 1))

\* The answer the user's RecvCb gives to its next invocation in this step.
RecvAns(x) == x.env.ans[IF x.ncb + 1 < Len(x.env.ans) THEN x.ncb + 1 ELSE Len(x.env.ans)]

\* handle->cb.RecvCb(handle, conn, &rcv[index], ER_OK)
RecvCb(x0, index) ==
    CHOOSE out \in {
        IF ~Running(x) THEN x
        ELSE LET rcv == x.c.RBUF.rcv[index]
             IN  [x EXCEPT !.ncb = @ + 1,
                           !.log = Append(@, [cb |-> "RecvCb", slot |-> index, seq |-> rcv.seq,
                                              fcnt |-> rcv.fcnt, som |-> rcv.som,
                                              buf |-> rcv.buf, ok |-> RecvAns(x)])]
        : x \in {x0}} : TRUE

\* for (i = 0; i < cnt; i++) { fragment->isDelivered = true; fragment = fragment->next; }
MarkDelivered(x0, from, cnt) ==
    CHOOSE out \in {
        LET n == x.c.RCV.MAX
            hit == {(from + i) % n : i \in 0..(cnt - 1)}
        IN  SetC(x, [x.c EXCEPT !.RBUF.rcv =
                        [j \in DOMAIN @ |->
                            IF j \in hit THEN [@[j] EXCEPT !.isDelivered = TRUE] ELSE @[j]]])
        : x \in {x0}} : TRUE

\* current->timer = AddTimer(..., RECV_TIMER, RecvTimerHandler, context, ...) for
\* the slot current.
RecvLater(x0, current, context) ==
    CHOOSE out \in {
        SetC(x, [NewTimer(x.c, "RECV_TIMER", context, ARDP_RECV_TIMEOUT, ARDP_RECV_RETRY)
                    EXCEPT !.RBUF.rcv[current].timer = FreshTimer(x.c)])
        : x \in {x0}} : TRUE

\* mask[0] = mask[skip] << lshift with lshift = 32 - delta % 32; the loop over the
\* further words does not run for a mask of one word, so htnMask keeps its value.
UpdateRcvMsk(x0, delta) ==
    CHOOSE out \in {
        IF ~Running(x) THEN x
        ELSE
        LET skip == delta \div 32
            lshift == 32 - (delta % 32)
            word == IF skip = 0 THEN x.c.rcvMsk.mask ELSE {}
            mask == {p - lshift : p \in {q \in word : q >= lshift}}
        IN  SetC(IF skip >= x.c.rcvMsk.fixedSz \/ lshift >= 32
                 THEN Undefined(x, "ub:UpdateRcvMsk") ELSE x,
                 [x.c EXCEPT !.rcvMsk.mask = mask,
                             !.rcvMsk.sz = IF mask /= {} THEN 1 ELSE 0])
        : x \in {x0}} : TRUE

\* 1 << offset is the bit delta - 1 counted from the most significant one.
AddRcvMsk(x0, delta) ==
    CHOOSE out \in {
        IF ~Running(x) THEN x
        ELSE
        LET wide == Wide(delta)
            bin32 == IF wide >= 1 THEN (wide - 1) \div 32 ELSE x.c.rcvMsk.fixedSz
            mask == x.c.rcvMsk.mask \cup {wide - 1}
        IN  IF bin32 >= x.c.rcvMsk.fixedSz
            THEN Undefined(Expect(x, FALSE, "assert:AddRcvMsk"), "ub:AddRcvMsk")
            ELSE SetC(x, [x.c EXCEPT !.rcvMsk.mask = mask,
                                     !.rcvMsk.sz = IF @ < bin32 + 1 THEN bin32 + 1 ELSE @,
                                     !.rcvMsk.htnMask = HtonlMask(mask)])
        : x \in {x0}} : TRUE

\* The last fragment of a message has arrived in order: check and hand over.
\* r = [x, cur, delta, deliver].
AddRcvFragment(r0, seg) ==
    CHOOSE out \in {
        LET x == r.x
            n == x.c.RCV.MAX
            current == x.c.RBUF.rcv[r.cur]
            start == Trunc16(seg.SOM % n)
            frags == {(start + i) % n : i \in 0..(current.fcnt - 1)}
            after == (start + current.fcnt) % n
            checked ==
                Expect(Expect(Expect(x, \A j \in frags : x.c.RBUF.rcv[j].inUse,
                                     "assert:AddRcvBuffer:gap"),
                              \A j \in frags : ~x.c.RBUF.rcv[j].isDelivered,
                              "assert:AddRcvBuffer:delivered"),
                       \A j \in frags : x.c.RBUF.rcv[j].som = seg.SOM
                                        /\ x.c.RBUF.rcv[j].fcnt = seg.FCNT,
                       "assert:AddRcvBuffer:track")
        IN  CHOOSE out \in {
                IF ~Running(x4) THEN [r EXCEPT !.x = x4]
                ELSE IF ~RecvAns(x)
                THEN [r EXCEPT !.x = RecvLater(x4, r.cur, start), !.deliver = FALSE]
                ELSE [r EXCEPT !.x = MarkDelivered(x4, after, current.fcnt),
                               !.deliver = TRUE]
                : x4 \in {RecvCb(checked, start)}} : TRUE
        : r \in {r0}} : TRUE

\* An unfragmented segment is handed over; r = [x, cur, delta, deliver].
AddRcvWhole(r0) ==
    CHOOSE out \in {
        IF ~RecvAns(r.x)
        THEN [r EXCEPT !.x = RecvLater(RecvCb(r.x, r.cur), r.cur, r.cur), !.deliver = FALSE]
        ELSE [r EXCEPT !.x = MarkDelivered(RecvCb(r.x, r.cur), r.cur, 1)]
        : r \in {r0}} : TRUE

\* One pass through the body of the do-while loop of AddRcvBuffer.
AddRcvStep(r0, seg) ==
    CHOOSE out \in {
        LET current == r.x.c.RBUF.rcv[r.cur]
            r1 == [r EXCEPT !.x = SetC(r.x, [r.x.c EXCEPT !.RCV.CUR = current.seq])]
            r2 == IF current.fcnt > 1
                  THEN IF current.seq = Add32(current.som, current.fcnt - 1)
                       THEN AddRcvFragment(r1, seg) ELSE r1
                  ELSE IF r.deliver THEN AddRcvWhole(r1)
                  ELSE r1
        IN  [r2 EXCEPT !.cur = (r.cur + 1) % r.x.c.RCV.MAX, !.delta = r.delta + 1]
        : r \in {r0}} : TRUE

RECURSIVE AddRcvLoop(_, _)
AddRcvLoop(r0, seg) ==
    CHOOSE out \in {
        IF Running(r.x) /\ r.x.c.RBUF.rcv[r.cur].seq = Add32(seg.SEQ, r.delta)
        THEN AddRcvLoop(r, seg) ELSE r
        : r \in {AddRcvStep(r0, seg)}} : TRUE

AddRcvBuffer(x0, seg, len, ordered) ==
    CHOOSE out \in {
        IF ~Running(x) THEN x
        ELSE
        LET c == x.c
            index == Trunc16(seg.SEQ % c.RCV.MAX)
            previous == IF index = 0 THEN MinusOneMod(c.RCV.MAX) ELSE (index - 1) % c.RCV.MAX
            full == c.RBUF.window = 0 /\ ~SEQ32_LT(seg.SEQ, c.RBUF.last)
            grows == SEQ32_LT(c.RBUF.last, seg.SEQ)
            sane == Expect(x, c.rcvHdrLen = len - seg.DLEN, "assert:AddRcvBuffer:hdrlen")
            stored ==
                SetC(Expect(Expect(sane, ~c.RBUF.rcv[index].inUse, "assert:AddRcvBuffer:inUse"),
                            grows => Sub32(seg.SEQ, c.RBUF.last) < c.RCV.MAX,
                            "assert:AddRcvBuffer:last"),
                     [c EXCEPT !.RBUF.last = IF grows THEN seg.SEQ ELSE @,
                               !.RBUF.rcv[index] =
                                   [@ EXCEPT !.seq = seg.SEQ, !.datalen = seg.DLEN,
                                             !.inUse = TRUE, !.buf = seg.buf,
                                             !.fcnt = seg.FCNT, !.som = seg.SOM]])
        IN  IF full THEN SetSt(Expect(sane, FALSE, "assert:AddRcvBuffer:window"), "ER_FAIL")
            ELSE IF seg.DLEN > c.RBUF.MAX THEN SetSt(sane, "ER_FAIL")
            ELSE CHOOSE out \in {
                          SetSt(SetC(y, [y.c EXCEPT !.RBUF.window = RcvWindow(y.c)]), "ER_OK")
                              : y \in {CHOOSE out \in { IF ordered
                                  THEN CHOOSE out \in { IF r.delta > 1 THEN UpdateRcvMsk(r.x,
                                  r.delta + 1) ELSE r.x : r \in {AddRcvLoop([x |-> y,
                                  cur |-> index, delta |-> 0,
                                  deliver |-> y.c.RBUF.rcv[previous].isDelivered], seg)}} : TRUE
                                  ELSE AddRcvMsk(y, Sub32(seg.SEQ, Add32(y.c.RCV.CUR,
                                  1))) : y \in {stored}} : TRUE}} : TRUE
        : x \in {x0}} : TRUE

\* The loop of UpdateRcvBuffers that releases count slots starting at index.
RECURSIVE UpdateRcvLoop(_, _, _)
UpdateRcvLoop(x0, index, count) ==
    CHOOSE out \in {
        IF ~Running(x) \/ count = 0 THEN x
        ELSE
        LET consumed == x.c.RBUF.rcv[index]
        IN  UpdateRcvLoop(
                SetC(Expect(Expect(x, consumed.inUse, "assert:UpdateRcvBuffers:inUse"),
                            consumed.isDelivered, "assert:UpdateRcvBuffers:isDelivered"),
                     [x.c EXCEPT !.RBUF.rcv[index].inUse = FALSE,
                                 !.RBUF.rcv[index].isDelivered = FALSE,
                                 !.RBUF.first = Add32(@, 1)]),
                (index + 1) % x.c.RCV.MAX, count - 1)
        : x \in {x0}} : TRUE

\* consumed is the index of the slot whose ArdpRcvBuf the user hands back.
UpdateRcvBuffers(x0, consumed) ==
    CHOOSE out \in {
        IF ~Running(x) THEN x
        ELSE
        LET c == x.c
            rcv == c.RBUF.rcv[consumed]
            index == Trunc16(rcv.seq % c.RCV.MAX)
            first == Expect(x, c.RBUF.first = rcv.seq, "assert:UpdateRcvBuffers:first")
        IN  IF index /= consumed
            THEN SetSt(Expect(first, FALSE, "assert:UpdateRcvBuffers:sequence"), "ER_FAIL")
            ELSE CHOOSE out \in {
                          IF SEQ32_LT(x4.c.RBUF.last, x4.c.RBUF.first)
                          THEN SetSt(SetC(x4, [x4.c EXCEPT !.RBUF.window = x4.c.RCV.MAX,
                                                           !.RBUF.last = x4.c.RBUF.first]),
                                     "ER_OK")
                          ELSE SetSt(SetC(x4, [x4.c EXCEPT !.RBUF.window = RcvWindow(x4.c)]),
                                     "ER_OK")
                          : x4 \in {UpdateRcvLoop(Expect(first, rcv.fcnt < 1,
                              "assert:UpdateRcvBuffers:fcnt"), consumed, rcv.fcnt)}} : TRUE
        : x \in {x0}} : TRUE

ARDP_RecvReady(x0, rcv) ==
    CHOOSE out \in {
        IF ~Running(x) THEN x
        ELSE IF ~x.c.inList THEN SetSt(x, "ER_ARDP_INVALID_STATE")
        ELSE UpdateRcvBuffers(x, rcv)
        : x \in {x0}} : TRUE

\* The while (deliver) loop of RecvTimerHandler; r = [x, fragment], fragment being
\* the slot the last marking loop stopped at. The loop never ends when the same
\* link of the ring is tested again and again and the user keeps accepting: the
\* process hangs.
RECURSIVE RecvTimerLoop(_, _)
RecvTimerLoop(r0, n) ==
    CHOOSE out \in {
        IF ~Running(r.x) THEN r.x
        ELSE
        LET x == r.x
            max == x.c.RCV.MAX
            next == (r.fragment + 1) % max
            deliver == Add32(x.c.RBUF.rcv[r.fragment].seq, 1) = x.c.RBUF.rcv[next].seq
            current == x.c.RBUF.rcv[next]
        IN  IF ~deliver THEN x
            ELSE IF n > Len(x.env.ans) + 2 * max THEN Crash(x, "hang:RecvTimerHandler")
            ELSE CHOOSE out \in {
                          IF ~Running(x3) THEN x3
                          ELSE IF ~RecvAns(x) THEN RecvLater(x3, next, next)
                          ELSE RecvTimerLoop(
                                   [x |-> MarkDelivered(x3, next, current.fcnt),
                                    fragment |-> (next + current.fcnt) % max], n + 1)
                          : x3 \in {RecvCb(Expect(Expect(x, current.inUse,
                              "assert:RecvTimerHandler:inUse"), current.isDelivered,
                              "assert:RecvTimerHandler:isDelivered"), next)}} : TRUE
        : r \in {r0}} : TRUE

\* context is the index of the receive slot the timer was armed for.
RecvTimerHandler(x0, context) ==
    CHOOSE out \in {
        IF ~Running(x) THEN x
        ELSE
        LET current == x.c.RBUF.rcv[context]
            timer == current.timer
            retry == Trunc16(TimerOf(x.c, timer).retry - 1)
        IN  IF RecvAns(x)
            THEN RecvTimerLoop(
                     [x |-> CHOOSE out \in {
                                     SetC(x3, [x3.c EXCEPT !.RBUF.rcv[context].timer = NoTimer])
                                         : x3 \in {SetTimer(MarkDelivered(RecvCb(x, context),
                                             context, current.fcnt), timer, "retry", 0)}} : TRUE,
                      fragment |-> (context + current.fcnt) % x.c.RCV.MAX], 1)
            ELSE IF timer = NoTimer THEN Crash(RecvCb(x, context), "segv:RecvTimerHandler")
            ELSE IF timer \notin TimerIds(x.c)
            THEN Undefined(RecvCb(x, context), "ub:RecvTimerHandler")
            ELSE IF retry <= 0
            THEN ARDP_Disconnect(SetTimer(RecvCb(x, context), timer, "retry", retry))
            ELSE SetTimer(RecvCb(x, context), timer, "retry", retry)
        : x \in {x0}} : TRUE

\* env.idle tells how timer->when - conn->lastSeen compares with the persist
\* timeout and with the link timeout (ten probe timeouts).
WindowCheckTimerHandler(x0, context) ==
    CHOOSE out \in {
        IF ~Running(x) THEN x
        ELSE CHOOSE out \in {
                 IF x.env.idle /= "fresh" \/ x1.c.window < x1.c.minSendWindow
                 THEN Send(x1, {"ACK", "VER", "NUL"}, x1.c.SND.NXT, x1.c.RCV.CUR,
                           x1.c.RBUF.window)
                 ELSE x1
                 : x1 \in {IF x.env.idle = "link" THEN ARDP_Disconnect(x) ELSE x}} : TRUE
        : x \in {x0}} : TRUE

DisconnectCb(x, status) == Logged(x, [cb |-> "DisconnectCb", status |-> status])

ConnectCb(x, passive, data, status) ==
    Logged(x, [cb |-> "ConnectCb", passive |-> passive, buf |-> data, status |-> status])

\* A DISCONNECT timer handler that destroys the record without telling the user.
DisconnectTimerSilent(x) == DelConnRecord(SetState(x, "CLOSED"))

DisconnectTimerHandler(x) ==
    DelConnRecord(DisconnectCb(SetState(x, "CLOSED"), "ER_OK"))

\* A CONNECT timer handler that reports the failure through the wrong callback.
ConnectTimerReportsDisconnect(x0) ==
    CHOOSE out \in {
        DelConnRecord(SetState(DisconnectCb(x, "ER_FAIL"), "CLOSED")) : x \in {x0}} : TRUE

ConnectTimerHandler(x0) ==
    CHOOSE out \in {
        DelConnRecord(SetState(ConnectCb(x, x.c.passive, 0, "ER_FAIL"), "CLOSED")) : x \in {x0}} : TRUE

\* One expired timer inside the loop of CheckConnTimers: the handler runs, then
\* the timer is deleted if its retry count is used up and rescheduled if not.
FireTimer(x0, id) ==
    CHOOSE out \in {
        CHOOSE out \in {
                 IF ~Running(x1) \/ ~x1.c.inList THEN x1
                 ELSE IF id \notin TimerIds(x1.c) THEN Undefined(x1, "ub:CheckConnTimers")
                 ELSE IF TimerOf(x1.c, id).retry <= 0 THEN DeleteTimer(x1, id)
                 ELSE x1
                 : x1 \in {LET timer == TimerOf(x.c, id)
                            IN  CASE timer.type = "DISCONNECT_TIMER" -> DisconnectTimerHandler(x)
                                  [] timer.type = "CONNECT_TIMER" -> ConnectTimerHandler(x)
                                  [] timer.type = "RETRANSMIT_TIMER" ->
                                         RetransmitTimerHandler(x, timer.context)
                                  [] timer.type = "RECV_TIMER" ->
                                         RecvTimerHandler(x, timer.context)
                                  [] timer.type = "WINDOW_CHECK_TIMER" ->
                                         WindowCheckTimerHandler(x, timer.context)}} : TRUE
        : x \in {x0}} : TRUE

-----------------------------------------------------------------------------
(* SYN segments and the connection API *)

\* An ArdpSynSegment on the wire; its hlen is never read by the receiver.
\* A DoSendSyn that sends the SYN without arming the CONNECT timer.
DoSendSynUntimed(x0, synack, seq, ack, segmax, segbmax, buf, len) ==
    CHOOSE out \in {
        SendMsg(Expect(x, buf /= 0 /\ len /= 0, "assert:DoSendSyn"),
                [Datagram(TRUE, IF synack THEN {"SYN", "VER", "ACK"} ELSE {"SYN", "VER"}, 0,
                          Htons(x.c.local), Htons(x.c.foreign), Htons(len), Htonl(seq),
                          Htonl(ack), 0)
                    EXCEPT !.segmax = Htons(Trunc16(segmax)),
                           !.segbmax = Htons(Trunc16(segbmax)), !.buf = buf])
        : x \in {x0}} : TRUE

DoSendSyn(x0, synack, seq, ack, segmax, segbmax, buf, len) ==
    CHOOSE out \in {
        SendMsg(AddTimer(Expect(x, buf /= 0 /\ len /= 0, "assert:DoSendSyn"),
                         "CONNECT_TIMER", 0, ARDP_CONNECT_TIMEOUT, ARDP_CONNECT_RETRY),
                [Datagram(TRUE, IF synack THEN {"SYN", "VER", "ACK"} ELSE {"SYN", "VER"}, 0,
                          Htons(x.c.local), Htons(x.c.foreign), Htons(len), Htonl(seq),
                          Htonl(ack), 0)
                    EXCEPT !.segmax = Htons(Trunc16(segmax)),
                           !.segbmax = Htons(Trunc16(segbmax)), !.buf = buf])
        : x \in {x0}} : TRUE

SendSyn(x, iss, segmax, segbmax, buf, len) ==
    DoSendSyn(SetState(x, "SYN_SENT"), FALSE, iss, 0, segmax, segbmax, buf, len)

SendSynAck(x, seq, ack, recvmax, recvbmax, buf, len) ==
    DoSendSyn(x, TRUE, seq, ack, recvmax, recvbmax, buf, len)

\* The reset that answers a SYN when the handle is not accepting.
SendRst(x, local, foreign) ==
    SendMsg(x, Datagram(FALSE, {"RST", "VER"}, ARDP_FIXED_HEADER_LEN \div 2,
                        Htons(local), Htons(foreign), 0, 0, 0, 0))

\* new ArdpConnRecord(): the log notes where the life of a record begins.
Created(x) == Logged(x, [new |-> "ArdpConnRecord"])

\* iss and local are the two values random() returns.
ARDP_Connect(x0, iss, local, segmax, segbmax, buf, len) ==
    CHOOSE out \in {
        IF ~Running(x) THEN x
        ELSE CHOOSE out \in {
                      IF x1.st /= "ER_OK" THEN SetSt(SetC(x, NewConnRecord), x1.st)
                      ELSE SendSyn(SetC(x1, [x1.c EXCEPT !.passive = FALSE, !.inList = TRUE]),
                                   x1.c.SND.ISS, x1.c.RCV.MAX, x1.c.RBUF.MAX, buf, len)
                      : x1 \in {InitRcv(Created(SetC(x, InitConnRecord(NewConnRecord, iss, local,
                          0))), segmax, segbmax)}} : TRUE
        : x \in {x0}} : TRUE

\* The part of ARDP_Accept that follows a successful InitRcv.
AcceptSBUF(x0, buf, len) ==
    CHOOSE out \in {
        IF ~Running(x) THEN x
        ELSE IF x.st /= "ER_OK" THEN SetSt(DelConnRecord(x), x.st)
        ELSE SetSt(SendSynAck(SetState(x, "SYN_RCVD"), x.c.SND.ISS, x.c.RCV.CUR,
                              x.c.RCV.MAX, x.c.RBUF.MAX, buf, len), "ER_OK")
        : x \in {InitSBUF(x0)}} : TRUE

ARDP_Accept(x0, segmax, segbmax, buf, len) ==
    CHOOSE out \in {
        IF ~Running(x) THEN x
        ELSE IF ~x.c.inList THEN SetSt(x, "ER_ARDP_INVALID_STATE")
        ELSE CHOOSE out \in {
                 IF x1.st /= "ER_OK" THEN SetSt(DelConnRecord(x1), x1.st)
                 ELSE AcceptSBUF(x1, buf, len)
                 : x1 \in {InitRcv(x, segmax, segbmax)}} : TRUE
        : x \in {x0}} : TRUE

ARDP_Send(x0, buf, len, ttl) ==
    CHOOSE out \in {
        IF ~Running(x) THEN x
        ELSE IF ~x.c.inList \/ x.c.State /= "OPEN" THEN SetSt(x, "ER_ARDP_INVALID_STATE")
        ELSE IF buf = 0 \/ len = 0 THEN SetSt(x, "ER_INVALID_DATA")
        ELSE IF x.c.window = 0 \/ Sub32(x.c.SND.NXT, x.c.SND.UNA) >= x.c.window
        THEN SetSt(x, "ER_ARDP_BACKPRESSURE")
        ELSE SendData(x, buf, len, ttl)
        : x \in {x0}} : TRUE

\* The user's AcceptCb: it calls ARDP_Accept on the spot and returns true, returns
\* true and leaves the call for later, or returns false.
AcceptCb(x0, data, len) ==
    CHOOSE out \in {
        IF x.env.accept = "now"
        THEN ARDP_Accept(Logged(x, [cb |-> "AcceptCb", buf |-> data, len |-> len,
                                    how |-> x.env.accept]),
                         x.env.segmax, x.env.segbmax, x.env.buf, x.env.len)
        ELSE Logged(x, [cb |-> "AcceptCb", buf |-> data, len |-> len, how |-> x.env.accept])
        : x \in {x0}} : TRUE

-----------------------------------------------------------------------------
(* ArdpMachine: seg is the parsed segment, d the datagram it was parsed from *)

MachineClosed(x0, seg) ==
    CHOOSE out \in {
        IF "RST" \in seg.FLG THEN x
        ELSE IF "ACK" \in seg.FLG \/ "NUL" \in seg.FLG
        THEN Send(x, {"RST", "VER"}, 0, Add32(seg.ACK, 1), x.c.RCV.MAX)
        ELSE Send(x, {"RST", "ACK", "VER"}, 0, seg.SEQ, x.c.RCV.MAX)
        : x \in {x0}} : TRUE

MachineListen(x0, seg, d) ==
    CHOOSE out \in {
        IF "RST" \in seg.FLG THEN x
        ELSE IF "ACK" \in seg.FLG \/ "NUL" \in seg.FLG
        THEN Send(x, {"RST", "VER"}, Add32(seg.ACK, 1), 0, 0)
        ELSE IF "SYN" \in seg.FLG
        THEN LET remoteMskSz == Trunc16(MaskWords(seg.MAX))
                 accepted ==
                     AcceptCb(SetC(x, [x.c EXCEPT !.RCV.CUR = seg.SEQ, !.RCV.IRS = seg.SEQ,
                                                 !.SND.MAX = seg.MAX,
                                                 !.remoteMskSz = remoteMskSz,
                                                 !.rcvHdrLen = Trunc16(ARDP_FIXED_HEADER_LEN
                                                                       + remoteMskSz * 4),
                                                 !.window = Trunc16(seg.MAX),
                                                 !.SBUF.MAX = Ntohs(seg.BMAX)]),
                              d.buf, seg.DLEN)
             IN  IF x.env.accept = "reject" THEN DelConnRecord(accepted) ELSE accepted
        ELSE x
        : x \in {x0}} : TRUE

\* SYN_SENT, a SYN with ACK: the connection is open.
SynSentOpen(x0, seg, d) ==
    CHOOSE out \in {
        CHOOSE out \in {
                         Send(x8, {"ACK", "VER"}, x8.c.SND.NXT, x8.c.RCV.CUR, x8.c.RCV.MAX)
                             : x8 \in {ConnectCb(Expect(AddTimer(CancelTimer(SetState(PostInitRcv( SetC(x,
                                 [x.c EXCEPT !.SND.UNA = Add32(seg.ACK, 1)])), "OPEN"),
                                 "CONNECT_TIMER"), "WINDOW_CHECK_TIMER", 0,
                                 ARDP_WINDOW_CHECK_TIMEOUT, ARDP_RETRY_ALWAYS), ~x.c.passive,
                                 "assert:SYN_SENT:passive"), FALSE, d.buf, "ER_OK")}} : TRUE
        : x \in {x0}} : TRUE

\* SYN_SENT, a SYN: the send side is set up from what the peer announces.
SynSentInit(x0, seg, d) ==
    CHOOSE out \in {
        LET sndMax == Ntohs(d.segmax)
            remoteMskSz == Trunc16(MaskWords(seg.MAX))
        IN  CHOOSE out \in {
                             Expect(x2, x2.st = "ER_OK", "assert:SYN_SENT:InitSBUF")
                                 : x2 \in {InitSBUF(SetC(x, [x.c EXCEPT !.SND.MAX = sndMax,
                                     !.remoteMskSz = remoteMskSz,
                                     !.rcvHdrLen = Trunc16(ARDP_FIXED_HEADER_LEN + remoteMskSz * 4),
                                     !.window = Trunc16(sndMax), !.foreign = seg.SRC,
                                     !.RCV.CUR = seg.SEQ, !.RCV.IRS = seg.SEQ,
                                     !.SBUF.MAX = Ntohs(d.segbmax)]))}} : TRUE
        : x \in {x0}} : TRUE

MachineSynSent(x0, seg, d) ==
    CHOOSE out \in {
        IF "RST" \in seg.FLG THEN SetState(x, "CLOSED")
        ELSE IF "SYN" \in seg.FLG
        THEN IF "ACK" \in seg.FLG
             THEN SynSentOpen(SynSentInit(x, seg, d), seg, d)
             ELSE AcceptCb(SynSentInit(x, seg, d), d.buf, seg.DLEN)
        ELSE IF "ACK" \in seg.FLG /\ seg.ACK /= x.c.SND.ISS
        THEN Send(SetState(x, "CLOSED"), {"RST", "VER"}, Add32(seg.ACK, 1), 0, x.c.RCV.MAX)
        ELSE x
        : x \in {x0}} : TRUE

\* SYN_RCVD, the ACK of our SYN: the connection is open, and the segment may
\* carry the first data.
SynRcvdOpen(x0, seg, len) ==
    CHOOSE out \in {
        CHOOSE out \in {
                 IF seg.DLEN /= 0
                 THEN CHOOSE out \in {
                                      Send(y, {"ACK", "VER"}, y.c.SND.NXT, y.c.RCV.CUR,
                                           y.c.RBUF.window)
                                      : y \in {CHOOSE out \in { Expect(y, y.st = "ER_OK",
                                          "assert:SYN_RCVD:AddRcvBuffer") : y \in {AddRcvBuffer(x4,
                                          seg, len, seg.SEQ = Add32(x4.c.RCV.CUR,
                                          1))}} : TRUE}} : TRUE
                 ELSE IF "NUL" \in seg.FLG
                 THEN Send(x4, {"ACK", "VER"}, x4.c.SND.NXT, x4.c.RCV.CUR, x4.c.RBUF.window)
                 ELSE x4
                 : x4 \in {ConnectCb(Expect(AddTimer(CancelTimer(SetState(PostInitRcv(x), "OPEN"),
                     "CONNECT_TIMER"), "WINDOW_CHECK_TIMER", 0, ARDP_WINDOW_CHECK_TIMEOUT,
                     ARDP_RETRY_ALWAYS), x.c.passive, "assert:SYN_RCVD:passive"), TRUE, 0,
                     "ER_OK")}} : TRUE
        : x \in {x0}} : TRUE

MachineSynRcvd(x0, seg, d, len) ==
    CHOOSE out \in {
        IF ~IN_RANGE(Add32(x.c.RCV.CUR, 1), x.c.RCV.MAX, seg.SEQ)
        THEN Send(x, {"ACK", "VER"}, x.c.SND.NXT, x.c.RCV.CUR, x.c.RCV.MAX)
        ELSE IF "RST" \in seg.FLG
        THEN SetState(x, IF x.c.passive THEN "LISTEN" ELSE "CLOSED")
        ELSE IF "SYN" \in seg.FLG
        THEN Send(SetState(x, "CLOSED"), {"RST", "VER"}, Add32(seg.ACK, 1), 0, x.c.RCV.MAX)
        ELSE IF "EACK" \in seg.FLG
        THEN Send(x, {"RST", "VER"}, Add32(seg.ACK, 1), 0, x.c.RCV.MAX)
        ELSE IF "ACK" \in seg.FLG
        THEN IF seg.ACK = x.c.SND.ISS
             THEN SynRcvdOpen(x, seg, len)
             ELSE Send(x, {"RST", "VER"}, Add32(seg.ACK, 1), 0, x.c.RCV.MAX)
        ELSE x
        : x \in {x0}} : TRUE

SendWindowCb(x, window) ==
    Logged(x, [cb |-> "SendWindowCb", window |-> window,
               status |-> IF window /= 0 THEN "ER_OK" ELSE "ER_ARDP_BACKPRESSURE"])

\* OPEN: the cumulative acknowledgement of the segment.
OpenAck(x0, seg) ==
    CHOOSE out \in {
        IF "ACK" \in seg.FLG
           /\ IN_RANGE(x.c.SND.UNA, Add32(Sub32(x.c.SND.NXT, x.c.SND.UNA), 1), seg.ACK)
        THEN CHOOSE out \in {
                             SetC(y, [y.c EXCEPT !.SND.UNA = Add32(seg.ACK, 1)])
                                 : y \in {FlushAckedSegments(x, seg.ACK)}} : TRUE
        ELSE x
        : x \in {x0}} : TRUE

\* OPEN: the data of the segment.
OpenData(x0, seg, len) ==
    CHOOSE out \in {
        IF seg.DLEN /= 0 /\ Running(x)
        THEN CHOOSE out \in {
                      IF y.st = "ER_OK"
                      THEN Send(y, {"ACK", "VER"}, y.c.SND.NXT, y.c.RCV.CUR, y.c.RBUF.window)
                      ELSE y
                      : y \in {IF SEQ32_LT(x.c.RCV.CUR, seg.SEQ) THEN AddRcvBuffer(x, seg, len,
                          seg.SEQ = Add32(x.c.RCV.CUR, 1)) ELSE SetSt(x, "ER_OK")}} : TRUE
        ELSE x
        : x \in {x0}} : TRUE

\* OPEN: the window the peer announces.
OpenWindow(x0, seg) ==
    CHOOSE out \in {
        IF Running(x) /\ x.c.window /= seg.WINDOW /\ build.windowCb
        THEN SendWindowCb(SetC(x, [x.c EXCEPT !.window = seg.WINDOW]), seg.WINDOW)
        ELSE x
        : x \in {x0}} : TRUE

MachineOpen(x0, seg, d, len) ==
    CHOOSE out \in {
        IF ~IN_RANGE(Add32(x.c.RCV.CUR, 1), x.c.RCV.MAX, seg.SEQ)
        THEN Send(Expect(x, FALSE, "assert:OPEN:sequence"), {"ACK", "VER"},
                  x.c.SND.NXT, x.c.RCV.CUR, x.c.RBUF.window)
        ELSE IF "RST" \in seg.FLG
        THEN SetState(AddTimer(x, "DISCONNECT_TIMER", 0, ARDP_TIMWAIT, ARDP_DISCONNECT_RETRY),
                      "CLOSE_WAIT")
        ELSE IF "SYN" \in seg.FLG
        THEN Send(SetState(x, IF x.c.passive THEN "LISTEN" ELSE "CLOSED"),
                  {"RST", "VER"}, Add32(seg.ACK, 1), 0, x.c.RBUF.window)
        ELSE IF "NUL" \in seg.FLG
        THEN Send(x, {"ACK", "VER"}, x.c.SND.NXT, x.c.RCV.CUR, x.c.RBUF.window)
        ELSE OpenWindow(OpenData(IF "EACK" \in seg.FLG
                                 THEN CancelEackedSegments(OpenAck(x, seg), d.ackMsk)
                                 ELSE OpenAck(x, seg),
                                 seg, len),
                        seg)
        : x \in {x0}} : TRUE

ArdpMachine(x0, seg, d, len) ==
    CHOOSE out \in {
        IF ~Running(x) THEN x
        ELSE CASE x.c.State = "CLOSED" -> MachineClosed(x, seg)
               [] x.c.State = "LISTEN" -> MachineListen(x, seg, d)
               [] x.c.State = "SYN_SENT" -> MachineSynSent(x, seg, d)
               [] x.c.State = "SYN_RCVD" -> MachineSynRcvd(x, seg, d, len)
               [] x.c.State = "OPEN" -> MachineOpen(x, seg, d, len)
               [] x.c.State = "CLOSE_WAIT" -> x
               [] OTHER -> Expect(x, FALSE, "assert:ArdpMachine")
        : x \in {x0}} : TRUE

-----------------------------------------------------------------------------
(* Inbound datagrams *)

\* nbytes of a datagram: the header the sender wrote plus the payload.
Nbytes(d) == d.hlen * 2 + Ntohs(d.dlen)

Receive(x0, d, len) ==
    CHOOSE out \in {
        SetSt(ArdpMachine(Expect(x, "SYN" \in d.flags \/ d.hlen * 2 = x.c.rcvHdrLen,
                                 "assert:Receive:hlen"),
                          [FLG |-> d.flags, HLEN |-> d.hlen, SRC |-> Ntohs(d.src),
                           DST |-> Ntohs(d.dst), SEQ |-> Ntohl(d.seq), ACK |-> Ntohl(d.ack),
                           MAX |-> x.c.RCV.MAX, BMAX |-> Trunc16(x.c.SBUF.MAX),
                           DLEN |-> Ntohs(d.dlen), WINDOW |-> Ntohs(d.window),
                           SOM |-> Ntohl(d.som), FCNT |-> Ntohs(d.fcnt), buf |-> d.buf],
                          d, len),
              "ER_OK")
        : x \in {x0}} : TRUE

Accept(x0, d, len) ==
    CHOOSE out \in {
        LET seg == [FLG |-> d.flags, HLEN |-> d.hlen, SRC |-> Ntohs(d.src),
                    DST |-> Ntohs(d.dst), SEQ |-> Ntohl(d.seq), ACK |-> Ntohl(d.ack),
                    MAX |-> Ntohs(d.segmax), BMAX |-> Ntohs(d.segbmax),
                    DLEN |-> Ntohs(d.dlen), WINDOW |-> 0, SOM |-> 0, FCNT |-> 0,
                    buf |-> d.buf]
            state == Expect(x, x.c.State = "CLOSED", "assert:Accept:state")
        IN  IF d.flags /= {"SYN", "VER"}
            THEN SetSt(Expect(state, FALSE, "assert:Accept:flags"), "ER_FAIL")
            ELSE SetSt(ArdpMachine(SetC(state, [x.c EXCEPT !.SND.MAX = seg.MAX,
                                                           !.SBUF.MAX = seg.BMAX,
                                                           !.State = "LISTEN",
                                                           !.foreign = seg.SRC,
                                                           !.passive = TRUE]),
                                   seg, d, len),
                       "ER_OK")
        : x \in {x0}} : TRUE

\* FindConn(handle, local, foreign), then FindConn(handle, local, 0).
FindConn(c, local, foreign) ==
    c.inList /\ c.local = local /\ (c.foreign = foreign \/ c.foreign = 0)

\* The part of ARDP_Run that handles one datagram read from the socket. iss and
\* port are what random() returns if a record is created for it.
RunDatagram(x0, d, accepting, iss, port) ==
    CHOOSE out \in {
        LET local == Ntohs(d.dst)
            foreign == Ntohs(d.src)
        IN  IF local = 0
            THEN IF accepting
                 THEN Accept(Created(SetC(x, [InitConnRecord(NewConnRecord, iss, port, foreign)
                                                 EXCEPT !.inList = TRUE])),
                             d, Nbytes(d))
                 ELSE SendRst(x, local, foreign)
            ELSE IF FindConn(x.c, local, foreign) THEN Receive(x, d, Nbytes(d))
            ELSE x
        : x \in {x0}} : TRUE

-----------------------------------------------------------------------------
(* CheckTimers and ARDP_Run, with the clock *)

\* uint32_t milliseconds, kept modulo 2^TimeBits.
TimeMod == Pow2(TimeBits)
AddT(a, b) == (a + b) % TimeMod
SubT(a, b) == (a - b) % TimeMod

\* (uint32_t) -1
ARDP_NO_TIMEOUT == TimeMod - 1

\* timer->when. when maps the timers that were armed before the call to their
\* deadlines; a timer armed during the call has when = TimeNow() + timeout.
WhenOf(when, t, now) == IF t.id \in DOMAIN when THEN when[t.id] ELSE AddT(now, t.delta)

\* The position of timer id on the list of c.
TimerPos(c, id) == CHOOSE i \in 1..Len(c.timers) : c.timers[i].id = id

\* if (timer->when < next) next = timer->when
Sooner(next, w) == IF w < next THEN w ELSE next

\* The loop of CheckConnTimers from the i-th timer of the list on.
\* r = [x, when, next, brk]; brk is set when the loop is left with break.
RECURSIVE ConnTimersLoop(_, _, _)
ConnTimersLoop(r0, i, now) ==
    CHOOSE out \in {
        IF ~Running(r.x) \/ r.brk \/ i > Len(r.x.c.timers) THEN r
        ELSE
        LET timer == r.x.c.timers[i]
            w == WhenOf(r.when, timer, now)
        IN  IF ~(w <= now)
            THEN ConnTimersLoop([r EXCEPT !.next = Sooner(@, w)], i + 1, now)
            ELSE CHOOSE out \in {
                     IF ~Running(y) \/ ~y.c.inList \/ y.c.timers = <<>>
                     THEN [r EXCEPT !.x = y, !.brk = TRUE,
                                    !.when = [id \in {} |-> 0]]
                     ELSE IF timer.id \notin TimerIds(y.c)
                     \* the timer was deleted, and timer->when is read from freed memory
                     THEN ConnTimersLoop(
                              [x |-> Undefined(y, "ub:CheckConnTimers:when"),
                               when |-> [id \in (DOMAIN r.when \cap TimerIds(y.c)) |-> r.when[id]],
                               next |-> Sooner(r.next, w), brk |-> FALSE],
                              i, now)
                     ELSE ConnTimersLoop(
                              [x |-> y,
                               when |-> [id \in ((DOMAIN r.when \cap TimerIds(y.c))
                                                    \cup {timer.id}) |->
                                            IF id = timer.id
                                            THEN AddT(now, TimerOf(y.c, id).delta)
                                            ELSE r.when[id]],
                               next |-> Sooner(r.next, AddT(now, TimerOf(y.c, timer.id).delta)),
                               brk |-> FALSE],
                              TimerPos(y.c, timer.id) + 1, now)
                     : y \in {FireTimer(r.x, timer.id)}} : TRUE
        : r \in {r0}} : TRUE

\* One record of the handle: [x, when] on entry, [x, when, ms] on return.
CheckConnTimers(x0, when, next, now) ==
    CHOOSE out \in {
        [x |-> r.x, when |-> r.when,
         ms |-> IF x0.c.timers = <<>> THEN next
                ELSE IF r.next /= ARDP_NO_TIMEOUT THEN SubT(r.next, now)
                ELSE ARDP_NO_TIMEOUT]
        : r \in {ConnTimersLoop([x |-> x0, when |-> when, next |-> next, brk |-> FALSE],
                                1, now)}} : TRUE

\* The loop of CheckTimers over the records of the handle, from the i-th on.
\* h = [recs, ms]: recs is the list of the records, each with its deadlines.
RECURSIVE CheckTimersLoop(_, _, _)
CheckTimersLoop(h0, i, now) ==
    CHOOSE out \in {
        IF i > Len(h.recs) \/ (i > 1 /\ ~Running(h.recs[i - 1].x)) THEN h
        ELSE CHOOSE out \in {
                 CheckTimersLoop([recs |-> [h.recs EXCEPT ![i] = [x |-> r.x, when |-> r.when]],
                                  ms |-> r.ms], i + 1, now)
                 : r \in {CheckConnTimers(h.recs[i].x, h.recs[i].when, h.ms, now)}} : TRUE
        : h \in {h0}} : TRUE

CheckTimers(recs, now) == CheckTimersLoop([recs |-> recs, ms |-> ARDP_NO_TIMEOUT], 1, now)

\* The while (socketReady) loop of ARDP_Run on the datagrams q that wait on the
\* socket: a datagram that belongs to no record is ignored and the next one is
\* read; recvfrom reports ER_WOULDBLOCK when none is left.
RECURSIVE RunLoop(_, _, _, _, _)
RunLoop(x0, q, accepting, iss, port) ==
    CHOOSE out \in {
        IF ~Running(x) \/ q = <<>> THEN [x |-> SetSt(x, "ER_OK"), rest |-> q]
        ELSE IF Ntohs(Head(q).dst) = 0 \/ FindConn(x.c, Ntohs(Head(q).dst), Ntohs(Head(q).src))
        THEN [x |-> RunDatagram(x, Head(q), accepting, iss, port), rest |-> Tail(q)]
        ELSE RunLoop(x, Tail(q), accepting, iss, port)
        : x \in {x0}} : TRUE

\* ARDP_Run(handle, sock, true, &ms) on a handle with at most one record: when
\* holds the deadlines of its timers and now is what TimeNow() returns.
ARDP_Run(x0, q, when, now, accepting, iss, port) ==
    CHOOSE out \in {
        CHOOSE out \in {[x |-> r.x, rest |-> r.rest, ms |-> h.ms]
                 : r \in {RunLoop(IF h.recs = <<>> THEN x0 ELSE h.recs[1].x, q,
                                  accepting, iss, port)}} : TRUE
        : h \in {CheckTimers(IF x0.c.inList THEN <<[x |-> x0, when |-> when]>> ELSE <<>>,
                             now)}} : TRUE

-----------------------------------------------------------------------------
(* Two engines and the datagrams between them *)

\* What random() returns for the initial sequence numbers and the local ports.
\* The sequence numbers sit just below the wrap of the sequence space.
IssA == SeqMod - 2
IssB == SeqMod - 3
PortA == 1
PortB == 2

Iss(e) == IF e = "A" THEN IssA ELSE IssB
Port(e) == IF e = "A" THEN PortA ELSE PortB

\* B has called ARDP_StartPassive; the builds differ in NDEBUG, in the byte order
\* of the host and in whether the user has installed a SendWindowCb.
Builds ==
    [ndebug : BOOLEAN, le : BOOLEAN, windowCb : BOOLEAN, accepting : {{"B"}}]

\* The state of engine e after handler result x, with the datagrams it has sent
\* queued at the peer and the datagrams rest still waiting at e.
Took(e, x, rest) ==
    /\ conn' = [conn EXCEPT ![e] = x.c]
    /\ log' = [log EXCEPT ![e] = x.log]
    /\ halt' = [halt EXCEPT ![e] = x.halt]
    /\ wire' = x.tx
    /\ net' = [net EXCEPT ![e] = rest, ![Peer(e)] = IF Peer(e) = e THEN rest ELSE @ \o x.tx]

Without(q, i) == SubSeq(q, 1, i - 1) \o SubSeq(q, i + 1, Len(q))

\* The user records the return value of an API call.
Returned(x0, call) == CHOOSE out \in {Logged(x, [call EXCEPT !.st = x.st]) : x \in {x0}} : TRUE

IsApi(ev, name) == "api" \in DOMAIN ev /\ ev.api = name
IsCb(ev, name) == "cb" \in DOMAIN ev /\ ev.cb = name

\* How many calls of the API function the user has made so far.
Calls(lg, name) == Cardinality({i \in 1..Len(lg) : IsApi(lg[i], name)})

\* Both handles are freshly allocated: no connection record, nothing in flight.
Fresh(builds) ==
    /\ build \in builds
    /\ conn = [e \in Engines |-> NewConnRecord]
    /\ net = [e \in Engines |-> <<>>]
    /\ wire = <<>>
    /\ log = [e \in Engines |-> <<>>]
    /\ halt = [e \in Engines |-> "none"]
    /\ nsteps = 0

\* Steps in which the environment misbehaves (a refusal, a timeout, a loss, a
\* datagram overtaking another, a failing socket) are counted, and MaxSteps of
\* them are allowed.
Calm(env) == env = Quiet \/ env = [Quiet EXCEPT !.segmax = env.segmax]
Costs(n) == nsteps + n <= MaxSteps /\ nsteps' = nsteps + n

\* The user of e calls ARDP_Connect once, with one of the ring sizes.
Connect(e, segmaxs) ==
    /\ halt[e] = "none" /\ ~conn[e].inList /\ log[e] = <<>>
    /\ \E segmax \in segmaxs :
       \E x \in {Returned(ARDP_Connect(Ctx(conn[e], Quiet, log[e]), Iss(e), Port(e),
                                       segmax, UserSegbmax, 1, 1),
                          [api |-> "connect", buf |-> 1, len |-> 1, st |-> ""])} :
           Took(e, x, net[e])
    /\ UNCHANGED <<build>> /\ Costs(0)

\* The network hands the datagrams over in the order they were sent, or in any order.
InOrder == "in order"
AnyOrder == "any order"

\* The datagrams of the queue q that recvfrom may return next.
Readable(q, order) == IF order = AnyOrder THEN 1..Len(q) ELSE IF q = <<>> THEN {} ELSE {1}

\* ARDP_Run reads one datagram that is waiting at e. A datagram for port 0 asks
\* for a new record, and the model has room for one record per handle.
Deliver(e, envs, order) ==
    /\ halt[e] = "none"
    /\ \E i \in Readable(net[e], order), env \in envs :
           /\ Ntohs(net[e][i].dst) = 0 => ~conn[e].inList
           /\ \E x \in {RunDatagram(Ctx(conn[e], env, log[e]), net[e][i],
                                    e \in build.accepting, Iss(e), Port(e))} :
                  Took(e, x, Without(net[e], i))
           /\ Costs((IF Calm(env) THEN 0 ELSE 1) + (IF i = 1 THEN 0 ELSE 1))
    /\ UNCHANGED <<build>>

\* A datagram waiting at e is lost.
Lose(e) ==
    /\ \E i \in 1..Len(net[e]) : net' = [net EXCEPT ![e] = Without(@, i)]
    /\ Costs(1)
    /\ UNCHANGED <<build, conn, log, halt, wire>>

\* CheckTimers finds one timer of e expired. cost is what the expiry counts for
\* among the steps of a misbehaving environment.
Fire(e, types, envs, cost) ==
    /\ halt[e] = "none" /\ conn[e].inList
    /\ \E i \in 1..Len(conn[e].timers), env \in envs :
           /\ conn[e].timers[i].type \in types
           /\ \E x \in {FireTimer(Ctx(conn[e], env, log[e]), conn[e].timers[i].id)} :
                  Took(e, x, net[e])
    /\ Costs(cost)
    /\ UNCHANGED <<build>>

\* A datagram that no engine of the model has sent arrives at e.
Inject(e, ds) ==
    /\ \E d \in ds : net' = [net EXCEPT ![e] = Append(@, d)]
    /\ Costs(1)
    /\ UNCHANGED <<build, conn, log, halt, wire>>

Sends(e) == Calls(log[e], "send")

\* The user of e, once told that the connection is up, sends its next buffer.
\* Buffers are numbered 1, 2, ... in the order of the calls; the record of the call
\* notes the sequence number the first segment of the buffer gets.
ApiSend(e, max, lens, ttls, envs) ==
    /\ halt[e] = "none" /\ Sends(e) < max
    /\ \E k \in 1..Len(log[e]) : IsCb(log[e][k], "ConnectCb") /\ log[e][k].status = "ER_OK"
    /\ \E len \in lens, ttl \in ttls, env \in envs :
           /\ \E x \in {Returned(ARDP_Send(Ctx(conn[e], env, log[e]), Sends(e) + 1, len, ttl),
                                 [api |-> "send", buf |-> Sends(e) + 1, len |-> len,
                                  ttl |-> ttl, som |-> conn[e].SND.NXT, st |-> ""])} :
                  Took(e, x, net[e])
           /\ Costs(IF Calm(env) THEN 0 ELSE 1)
    /\ UNCHANGED <<build>>

\* The receive buffers the user of e has accepted, in the order it got them.
Accepted(e) == SelectSeq(log[e], LAMBDA ev : IsCb(ev, "RecvCb") /\ ev.ok)
Released(e) == Calls(log[e], "recv_ready")

\* The user of e hands back the oldest buffer it still holds.
ApiRecvReady(e) ==
    /\ halt[e] = "none" /\ Released(e) < Len(Accepted(e))
    /\ \E ev \in {Accepted(e)[Released(e) + 1]} :
       \E x \in {Returned(ARDP_RecvReady(Ctx(conn[e], Quiet, log[e]), ev.slot),
                          [api |-> "recv_ready", slot |-> ev.slot, seq |-> ev.seq,
                           st |-> ""])} :
           Took(e, x, net[e])
    /\ UNCHANGED <<build>> /\ Costs(0)

\* The user of e calls ARDP_Disconnect.
ApiDisconnect(e) ==
    /\ halt[e] = "none" /\ conn[e].inList
    /\ \E x \in {Returned(ARDP_Disconnect(Ctx(conn[e], Quiet, log[e])),
                          [api |-> "disconnect", st |-> ""])} :
           Took(e, x, net[e])
    /\ UNCHANGED <<build>> /\ Costs(1)

\* The user of e calls ARDP_FreeHandle.
ApiFreeHandle(e) ==
    /\ halt[e] = "none"
    /\ \E x \in {ARDP_FreeHandle(Logged(Ctx(conn[e], Quiet, log[e]), [api |-> "free_handle"]))} :
           Took(e, x, net[e])
    /\ UNCHANGED <<build>> /\ Costs(0)

\* What TimeNow() returns during the call of ARDP_Run that is looked at.
Clock == 70000

\* The deadlines of the timers of c when those of due have just expired and the
\* others have just been armed.
Deadlines(c, due, now) ==
    [id \in TimerIds(c) |-> IF id \in due THEN now ELSE AddT(now, TimerOf(c, id).delta)]

\* No datagram that waits at e asks for a second record on the handle.
OneRecord(e) == \A i \in 1..Len(net[e]) : Ntohs(net[e][i].dst) = 0 => ~conn[e].inList

\* One call of ARDP_Run on the handle of e with socketReady = true, at most one
\* timer having expired since the last call.
Run(e, envs) ==
    /\ halt[e] = "none" /\ OneRecord(e)
    /\ \E env \in envs, due \in {s \in SUBSET TimerIds(conn[e]) : Cardinality(s) <= 1} :
           /\ \E r \in {ARDP_Run(Ctx(conn[e], env, log[e]), net[e],
                                 Deadlines(conn[e], due, Clock), Clock,
                                 e \in build.accepting, Iss(e), Port(e))} :
                  Took(e, r.x, r.rest)
           /\ Costs(Cardinality(due))
    /\ UNCHANGED <<build>>

-----------------------------------------------------------------------------
(* Specification of the receive path: A sends, B receives *)

\* B's user accepts or refuses each buffer.
RcvAnswers == {<<TRUE>>, <<FALSE>>, <<TRUE, FALSE>>}
RcvEnvs == {[Quiet EXCEPT !.ans = a] : a \in RcvAnswers}
RcvLens == {1, 3}
RcvBuilds == {b \in Builds : ~b.windowCb}

RcvConnect == Connect("A", {UserSegmax})
RcvDeliverA == Deliver("A", {Quiet}, InOrder)
RcvDeliverB == Deliver("B", RcvEnvs, AnyOrder)
RcvFire == Fire("B", {"RECV_TIMER"}, RcvEnvs, 1)
RcvSend == ApiSend("A", MaxSends, RcvLens, {0}, {Quiet})
RcvReady == ApiRecvReady("B")

InitRcvSpec == Fresh(RcvBuilds)
NextRcv == RcvConnect \/ RcvDeliverA \/ RcvDeliverB \/ RcvFire \/ RcvSend \/ RcvReady
SpecRcv == InitRcvSpec /\ [][NextRcv]_vars

-----------------------------------------------------------------------------
(* Properties of the receive path *)

RecvCbs(e) == {i \in 1..Len(log[e]) : IsCb(log[e][i], "RecvCb")}

\* C1: on one connection the RecvCb invocations that return true have strictly
\* ascending start-of-message sequence numbers (wrap-aware), and no message is
\* handed to RecvCb ahead of an earlier message whose delivery is still pending:
\* a message that was refused is accepted before any later message is offered.
C1_RecvInOrder ==
    \A e \in Engines : \A i, j \in RecvCbs(e) :
        i < j =>
            LET a == log[e][i]
                b == log[e][j]
            IN  /\ a.ok /\ b.ok => SEQ32_LT(a.seq, b.seq)
                /\ a.seq /= b.seq =>
                       /\ SEQ32_LT(a.seq, b.seq)
                       /\ ~a.ok => \E k \in RecvCbs(e) :
                                       i < k /\ k < j /\ log[e][k].ok /\ log[e][k].seq = a.seq

\* C3: once RecvCb has returned true for a message, RecvCb is never invoked again
\* for that message (the same start-of-message sequence number).
C3_NoRedelivery ==
    \A e \in Engines : \A i, j \in RecvCbs(e) :
        i < j /\ log[e][i].ok => log[e][j].seq /= log[e][i].seq

-----------------------------------------------------------------------------
(* The receive path with a consumer that accepts and releases every buffer *)

\* ARDP_Run reads every datagram that waits on the socket, and the consumer hands
\* back every buffer it was given: these steps are taken whenever they stay
\* possible. No datagram is lost and RecvCb always returns true.
FairConnect == Connect("A", {UserSegmax})
FairDeliverA == Deliver("A", {Quiet}, InOrder)
FairDeliverB == Deliver("B", {Quiet}, AnyOrder)
FairSend == ApiSend("A", MaxSends, RcvLens, {0}, {Quiet})
FairReady == ApiRecvReady("B")

NextRcvFair == FairConnect \/ FairDeliverA \/ FairDeliverB \/ FairSend \/ FairReady
SpecRcvFair ==
    /\ Fresh(RcvBuilds) /\ [][NextRcvFair]_vars
    /\ WF_vars(FairDeliverA) /\ WF_vars(FairDeliverB) /\ WF_vars(FairReady)

\* The sequence numbers A gives to its data segments.
DataSeqs == {Add32(IssA, k) : k \in 1..(2 * MaxSends)}

\* The segment numbered s is stored in e's receive ring and RCV.CUR has reached it.
StoredInOrder(e, s) ==
    /\ conn[e].inList /\ conn[e].State = "OPEN"
    /\ \E j \in DOMAIN conn[e].RBUF.rcv :
           LET rcv == conn[e].RBUF.rcv[j]
           IN  rcv.inUse /\ rcv.seq = s /\ rcv.fcnt >= 1
    /\ SEQ32_LET(s, conn[e].RCV.CUR)

\* RecvCb was called with the message that the segment numbered s belongs to.
Handed(e, s) ==
    \E i \in RecvCbs(e) : Sub32(s, log[e][i].seq) < log[e][i].fcnt

\* C2: every data segment stored in the receive ring whose number RCV.CUR has
\* reached is eventually passed to RecvCb, when RecvCb always accepts and the
\* consumer calls recv_ready on every buffer it was given. Only engines that keep
\* running are held to it.
C2_EventuallyHanded ==
    \A s \in DataSeqs :
        [](StoredInOrder("B", s) => <>(Handed("B", s) \/ halt["B"] /= "none"))

-----------------------------------------------------------------------------
(* The send path: A sends, B acknowledges, segments and acknowledgements may be
   lost or overtake each other, timers expire, A disconnects. B announces a
   ring of SndRing segments, so that A's send ring wraps with the second segment. *)

SndLens == {1, 3}
SndAccept == [Quiet EXCEPT !.segmax = SndRing]

SndConnect == Connect("A", {UserSegmax})
SndDeliverA == Deliver("A", {Quiet}, InOrder)
SndDeliverB == Deliver("B", {SndAccept}, AnyOrder)
SndLose == Lose("A")
SndFire == Fire("A", {"RETRANSMIT_TIMER", "DISCONNECT_TIMER"}, {Quiet}, 1)
SndSend == ApiSend("A", MaxSends, SndLens, {0}, {Quiet})
SndReady == ApiRecvReady("B")
SndDisconnect == ApiDisconnect("A")

NextSnd ==
    \/ SndConnect \/ SndDeliverA \/ SndDeliverB \/ SndLose \/ SndFire
    \/ SndSend \/ SndReady \/ SndDisconnect
SpecSnd == Fresh(RcvBuilds) /\ [][NextSnd]_vars

-----------------------------------------------------------------------------
(* Properties of the send path *)

\* The send() calls of e that returned ER_OK, and the SendCb invocations at e.
SentOk(e) == {i \in 1..Len(log[e]) : IsApi(log[e][i], "send") /\ log[e][i].st = "ER_OK"}
SendCbs(e) == {i \in 1..Len(log[e]) : IsCb(log[e][i], "SendCb")}
SendCbsOf(e, buf) == {i \in SendCbs(e) : log[e][i].buf = buf}

\* The connection record of e has been deleted and e is still running.
Destroyed(e) == halt[e] = "none" /\ ~conn[e].inList /\ log[e] /= <<>>

\* An OPEN connection of a running engine.
IsOpen(e) == halt[e] = "none" /\ conn[e].inList /\ conn[e].State = "OPEN"

\* C4: for every buffer for which send() returned ok, SendCb is invoked exactly
\* once: never more than once, and not zero times by the time the connection
\* record is destroyed.
C4_SendCbOnce ==
    \A e \in Engines : \A i \in SentOk(e) :
        /\ Cardinality(SendCbsOf(e, log[e][i].buf)) <= 1
        /\ Destroyed(e) => Cardinality(SendCbsOf(e, log[e][i].buf)) = 1

\* The number of fragments SendData cuts a buffer of len bytes into.
Frags(e, len) == (len + (conn[e].SBUF.maxDlen - 1)) \div conn[e].SBUF.maxDlen

\* C5: for a message sent as fcnt > 1 fragments, once a cumulative ACK has covered
\* its last fragment (SND.UNA is past som + fcnt - 1) SendCb(ok) has been invoked
\* exactly once for it, with the buffer and the length given to send(); before
\* that, no SendCb(ok) has been invoked for it.
C5_FragmentedSendCb ==
    \A i \in SentOk("A") :
        LET ev == log["A"][i]
            last == Add32(ev.som, Frags("A", ev.len) - 1)
            oks == {k \in SendCbsOf("A", ev.buf) : log["A"][k].status = "ER_OK"}
        IN  IsOpen("A") /\ Frags("A", ev.len) > 1 =>
                IF SEQ32_LT(last, conn["A"].SND.UNA)
                THEN Cardinality(oks) = 1 /\ \A k \in oks : log["A"][k].len = ev.len
                ELSE oks = {}

\* C6: SendCb invocations occur in the order of the send() calls that submitted
\* the buffers (buffers are numbered in the order of the calls).
C6_SendCbOrder ==
    \A e \in Engines : \A i, j \in SendCbs(e) :
        i < j => log[e][i].buf <= log[e][j].buf

\* C7: in every state of an OPEN connection SND.UNA <= SND.NXT <= SND.UNA + SND.MAX,
\* wrap-aware.
C7_SendWindow ==
    \A e \in Engines :
        IsOpen(e) => Sub32(conn[e].SND.NXT, conn[e].SND.UNA) <= conn[e].SND.MAX

\* C8: in every state of an OPEN connection, actively or passively opened,
\* SND.NXT - SND.UNA equals SBUF.pending.
C8_PendingCount ==
    \A e \in Engines :
        IsOpen(e) => Sub32(conn[e].SND.NXT, conn[e].SND.UNA) = conn[e].SBUF.pending

-----------------------------------------------------------------------------
(* The connection state machine under segments that no engine of the model has
   sent: a SYN, an ACK of the SYN and a RST that carry the ports of the two
   engines, which reach an engine in whatever state it is in *)

ForgedHlen == (ARDP_FIXED_HEADER_LEN + 4 * MaskWords(UserSegmax)) \div 2

Forged(e) ==
    LET src == Htons(Port(Peer(e)))
        dst == Htons(Port(e))
        seq == Add32(Iss(Peer(e)), 1)
    IN  {[Datagram(TRUE, {"SYN", "VER"}, 0, src, dst, Htons(1), Htonl(seq), Htonl(0), 0)
             EXCEPT !.segmax = Htons(UserSegmax), !.segbmax = Htons(UserSegbmax), !.buf = 1],
         Datagram(FALSE, {"ACK", "VER"}, ForgedHlen, src, dst, 0, Htonl(Add32(seq, 1)),
                  Htonl(Iss(e)), Htons(UserSegmax)),
         Datagram(FALSE, {"RST", "VER"}, ForgedHlen, src, dst, 0, Htonl(Add32(seq, 1)),
                  Htonl(Iss(e)), 0)}

FsmConnect == Connect("A", {UserSegmax})
FsmDeliver == \E e \in Engines : Deliver(e, {Quiet}, InOrder)
FsmInject == \E e \in Engines : Inject(e, Forged(e))
FsmFire == \E e \in Engines : Fire(e, {"CONNECT_TIMER", "DISCONNECT_TIMER"}, {Quiet}, 0)
FsmDisconnect == \E e \in Engines : ApiDisconnect(e)

\* The window check timer fires when the peer has been silent for the link timeout.
LinkDown == [Quiet EXCEPT !.idle = "link"]
FsmLink == \E e \in Engines : Fire(e, {"WINDOW_CHECK_TIMER"}, {LinkDown}, 1)

NextFsm == FsmConnect \/ FsmDeliver \/ FsmInject \/ FsmFire \/ FsmDisconnect \/ FsmLink
SpecFsm == Fresh(Builds) /\ [][NextFsm]_vars

\* CheckTimers runs in every pass of ARDP_Run: a CONNECT or DISCONNECT timer that
\* stays armed on an engine is fired.
FairFire(e) == Fire(e, {"CONNECT_TIMER", "DISCONNECT_TIMER"}, {Quiet}, 0)
SpecFsmFair == SpecFsm /\ \A e \in Engines : WF_vars(FairFire(e))

\* The state machine with users that may refuse a connection in AcceptCb, whose
\* accept() may run out of memory, and who may free the handle at any time.
Refuse == [Quiet EXCEPT !.accept = "reject"]
NoMemory == [Quiet EXCEPT !.oom = TRUE]
DelRefuse == \E e \in Engines : Deliver(e, {Refuse, NoMemory}, InOrder)
DelFree == \E e \in Engines : ApiFreeHandle(e)
NextDel == NextFsm \/ DelRefuse \/ DelFree
SpecDel == Fresh(Builds) /\ [][NextDel]_vars

ConnectCbs(e) == {i \in 1..Len(log[e]) : IsCb(log[e][i], "ConnectCb")}
IsNew(ev) == "new" \in DOMAIN ev

\* C10: ConnectCb is invoked at most once per connection record, ConnectCb(ok) from
\* the state machine and ConnectCb(fail) from the CONNECT timer counted alike: two
\* invocations on one engine are separated by the creation of a new record.
C10_ConnectCbOnce ==
    \A e \in Engines : \A i, j \in ConnectCbs(e) :
        i < j => \E k \in (i + 1)..(j - 1) : IsNew(log[e][k])

-----------------------------------------------------------------------------
(* The life of a connection record in the log of its engine *)

DisconnectCbs(e) == {i \in 1..Len(log[e]) : IsCb(log[e][i], "DisconnectCb")}

\* The entries of the log of e that belong to the same record as entry i and
\* precede it: those after the last creation of a record before i.
Before(e, i) == {k \in 1..(i - 1) : \A n \in k..(i - 1) : ~IsNew(log[e][n])}

\* C11: DisconnectCb is invoked at most once per connection record, and every
\* invocation is preceded on that record by a ConnectCb invocation or by a call
\* of disconnect().
C11_DisconnectCbOnce ==
    \A e \in Engines : \A i \in DisconnectCbs(e) :
        /\ \A k \in Before(e, i) : ~IsCb(log[e][k], "DisconnectCb")
        /\ \E k \in Before(e, i) :
               IsCb(log[e][k], "ConnectCb") \/ IsApi(log[e][k], "disconnect")

\* A DisconnectCb has been invoked on a record that was never disconnected by
\* its user: the DISCONNECT timer was armed by a RST or by the link timeout.
C11_Witness ==
    \E e \in Engines : \E i \in DisconnectCbs(e) :
        \A k \in Before(e, i) : ~IsApi(log[e][k], "disconnect")

-----------------------------------------------------------------------------
(* What the handlers would do in the present state *)

\* The record of e is in the list of a handle that is still running.
Live(e) == halt[e] = "none" /\ conn[e].inList

\* The datagrams that can reach the record of e next: those waiting at e and
\* those a third party can forge, if they carry the ports of the record.
Arriving(e) ==
    {d \in Forged(e) \cup {net[e][i] : i \in 1..Len(net[e])} :
        Ntohs(d.dst) /= 0 /\ FindConn(conn[e], Ntohs(d.dst), Ntohs(d.src))}

\* The engine e after ARDP_Run has read datagram d, and after timer id has fired.
AfterDatagram(e, d) ==
    RunDatagram(Ctx(conn[e], Quiet, log[e]), d, e \in build.accepting, Iss(e), Port(e))
AfterTimer(e, id, env) == FireTimer(Ctx(conn[e], env, log[e]), id)

TimersOf(e, type) == {conn[e].timers[i] : i \in {k \in 1..Len(conn[e].timers) : conn[e].timers[k].type = type}}

\* A RST whose sequence number is in the receive window of e.
AcceptableRst(e) ==
    {d \in Arriving(e) :
        "RST" \in d.flags /\ IN_RANGE(Add32(conn[e].RCV.CUR, 1), conn[e].RCV.MAX, Ntohl(d.seq))}

Life(e) == {k \in 1..Len(log[e]) : \A n \in k..Len(log[e]) : ~IsNew(log[e][n])}

\* The handshake of the present record of e has begun: its user has called
\* connect(), or has called accept() from AcceptCb.
Started(e) ==
    \E k \in Life(e) :
        \/ IsApi(log[e][k], "connect")
        \/ IsCb(log[e][k], "AcceptCb") /\ log[e][k].how = "now"

\* The present record of e was OPEN at some time, or its user has called disconnect().
Settled(e) ==
    \E k \in Life(e) :
        \/ IsCb(log[e][k], "ConnectCb") /\ log[e][k].status = "ER_OK"
        \/ IsApi(log[e][k], "disconnect")

\* The present record of e has been reported as failed and is out of the list.
Failed(e) ==
    /\ ~conn[e].inList
    /\ \E k \in Life(e) : IsCb(log[e][k], "ConnectCb") /\ log[e][k].status = "ER_FAIL"

C14_DestroyedClosed ==
    \A e \in Engines :
        /\ halt[e] /= "assert:DelConnRecord"
        /\ ~conn[e].inList => conn[e].State \in {NewConnRecord.State, "CLOSED"}

\* Message lengths: one segment, two, more than the peer's ring holds, and more
\* fragments than the 16 bits of fcnt count.
AnyLens == {1, 3, 4, 9, 2 * 65536 + 1}

\* The segments on their way to e that advertise the window of the peer: data
\* segments and acknowledgements with a sequence number in the receive window.
Advertising(e) ==
    {d \in Arriving(e) :
        /\ ~d.syn /\ d.flags \subseteq {"ACK", "VER", "EACK", "FRAG"}
        /\ IN_RANGE(Add32(conn[e].RCV.CUR, 1), conn[e].RCV.MAX, Ntohl(d.seq))}

\* The handler result x leaves the connection OPEN on a running handle.
StillOpen(x) == x.halt = "none" /\ x.c.inList /\ x.c.State = "OPEN"

\* The user of e calls ARDP_Send with its next buffer in the state x has left.
SendAfter(x, e, len, ttl, env) == ARDP_Send(Ctx(x.c, env, x.log), Sends(e) + 1, len, ttl)

\* The call is rejected with BACKPRESSURE and changes nothing.
Backpressured(x, e, len) ==
    /\ SendAfter(x, e, len, 0, Quiet).st = "ER_ARDP_BACKPRESSURE"
    /\ SendAfter(x, e, len, 0, Quiet).tx = <<>>
    /\ SendAfter(x, e, len, 0, Quiet).c = x.c
    /\ SendAfter(x, e, len, 0, Quiet).log = x.log

\* C15: send() on an OPEN connection returns BACKPRESSURE, transmits nothing and
\* leaves the connection record (SND.NXT, SND.UNA, SBUF.pending, the send slots,
\* the timers) unchanged whenever SND.NXT - SND.UNA >= SND.MAX, and whenever the
\* window the peer has last advertised is smaller than the number of fragments
\* the message needs.
C15_Backpressure ==
    \A e \in Engines : \A len \in AnyLens :
        /\ IsOpen(e) /\ Sub32(conn[e].SND.NXT, conn[e].SND.UNA) >= conn[e].SND.MAX
               => Backpressured(Ctx(conn[e], Quiet, log[e]), e, len)
        /\ \A d \in Advertising(e) :
               /\ IsOpen(e) /\ StillOpen(AfterDatagram(e, d))
               /\ Ntohs(d.window) < Frags(e, len)
               => Backpressured(AfterDatagram(e, d), e, len)

\* The API call whose result is x was rejected with InvalidState and has changed
\* nothing on the engine e.
Refused(e, x) ==
    /\ x.st = "ER_ARDP_INVALID_STATE"
    /\ x.c = conn[e] /\ x.tx = <<>> /\ x.log = log[e] /\ x.halt = "none"

\* C16: an API call made in a state of the connection where it is not allowed
\* returns InvalidState and leaves the state, the rings and the timers unchanged:
\* send() when not OPEN, disconnect() when CLOSED or CLOSE_WAIT, accept() when not
\* in LISTEN.
C16_InvalidState ==
    \A e \in Engines :
        Live(e) =>
            /\ conn[e].State /= "OPEN" =>
                   \A len \in AnyLens : Refused(e, SendAfter(Ctx(conn[e], Quiet, log[e]), e, len, 0, Quiet))
            /\ conn[e].State \in {"CLOSED", "CLOSE_WAIT"} =>
                   Refused(e, ARDP_Disconnect(Ctx(conn[e], Quiet, log[e])))
            /\ conn[e].State /= "LISTEN" =>
                   Refused(e, ARDP_Accept(Ctx(conn[e], Quiet, log[e]), UserSegmax, UserSegbmax, 1, 1))

\* The clock has passed the ttl of the message when SendMsgData looks at it.
Expired == [Quiet EXCEPT !.ttlx = TRUE]

\* A message of len bytes handed to send() by the user of e would be transmitted
\* now if it had no ttl.
Sendable(e, len) ==
    /\ IsOpen(e)
    /\ SendAfter(Ctx(conn[e], Quiet, log[e]), e, len, 0, Quiet).st = "ER_OK"
    /\ SendAfter(Ctx(conn[e], Quiet, log[e]), e, len, 0, Quiet).tx /= <<>>

\* The slot the next segment of e goes to.
NextSlot(e) == Trunc16(conn[e].SND.NXT % conn[e].SND.MAX)

\* C17: when the first transmission of a message with ttl > 0 is attempted after
\* the ttl has elapsed, in a fresh slot or in one used before, nothing is put on
\* the wire, send() returns TtlExpired, SND.NXT, SBUF.pending and the in_use flag
\* of the slot are unchanged, no timer is armed and no SendCb is invoked.
C17_TtlExpired ==
    \A e \in Engines : \A len \in {1, 3} :
        Sendable(e, len) =>
            /\ SendAfter(Ctx(conn[e], Quiet, log[e]), e, len, 1, Expired).tx = <<>>
            /\ SendAfter(Ctx(conn[e], Quiet, log[e]), e, len, 1, Expired).st = "ER_ARDP_TTL_EXPIRED"
            /\ SendAfter(Ctx(conn[e], Quiet, log[e]), e, len, 1, Expired).c.SND = conn[e].SND
            /\ SendAfter(Ctx(conn[e], Quiet, log[e]), e, len, 1, Expired).c.SBUF.pending
                   = conn[e].SBUF.pending
            /\ SendAfter(Ctx(conn[e], Quiet, log[e]), e, len, 1, Expired).c.SBUF.snd[NextSlot(e)].inUse
                   = conn[e].SBUF.snd[NextSlot(e)].inUse
            /\ SendAfter(Ctx(conn[e], Quiet, log[e]), e, len, 1, Expired).c.timers = conn[e].timers
            /\ SendAfter(Ctx(conn[e], Quiet, log[e]), e, len, 1, Expired).log = log[e]

\* The payload bytes of the first n datagrams of tx.
RECURSIVE SumDlen(_, _)
SumDlen(tx, n) == IF n = 0 THEN 0 ELSE SumDlen(tx, n - 1) + Ntohs(tx[n].dlen)

\* The datagrams tx are a message of len bytes cut into fragments of at most
\* maxDlen bytes, the first of which has sequence number som.
Fragmented(tx, len, maxDlen, som) ==
    LET fcnt == (len + maxDlen - 1) \div maxDlen
    IN  /\ Len(tx) = fcnt
        /\ \A i \in 1..Len(tx) :
               /\ Ntohl(tx[i].seq) = Add32(som, i - 1)
               /\ Ntohl(tx[i].som) = som
               /\ Ntohs(tx[i].fcnt) = fcnt
               /\ i < fcnt => Ntohs(tx[i].dlen) = maxDlen
               /\ i = fcnt => Ntohs(tx[i].dlen) \in 1..maxDlen
        /\ SumDlen(tx, Len(tx)) = len

\* The longest message the model hands to SendData in one call.
SendLens == 1..8

\* C18: for every len >= 1 that needs no more than SND.MAX fragments, SendData
\* emits fcnt = ceil(len / maxDlen) segments with consecutive sequence numbers
\* from som, each carrying som and fcnt; all but the last carry maxDlen bytes, the
\* last between 1 and maxDlen, and the lengths add up to len.
C18_Fragments ==
    \A e \in Engines : \A len \in SendLens :
        /\ IsOpen(e) /\ Frags(e, len) <= conn[e].SND.MAX
        /\ SendAfter(Ctx(conn[e], Quiet, log[e]), e, len, 0, Quiet).halt = "none"
        /\ SendAfter(Ctx(conn[e], Quiet, log[e]), e, len, 0, Quiet).st = "ER_OK"
        => Fragmented(SendAfter(Ctx(conn[e], Quiet, log[e]), e, len, 0, Quiet).tx, len,
                      conn[e].SBUF.maxDlen, conn[e].SND.NXT)

\* The segments on their way to e whose sequence number is outside the receive
\* window [RCV.CUR + 1, RCV.CUR + 1 + RCV.MAX) of e.
Unacceptable(e) ==
    {d \in Arriving(e) :
        /\ ~d.syn /\ d.hlen * 2 = conn[e].rcvHdrLen
        /\ ~IN_RANGE(Add32(conn[e].RCV.CUR, 1), conn[e].RCV.MAX, Ntohl(d.seq))}

\* tx is one acknowledgement that carries SND.NXT, RCV.CUR and RBUF.window of c.
OneAck(tx, c) ==
    /\ Len(tx) = 1
    /\ "ACK" \in tx[1].flags /\ tx[1].flags \subseteq {"ACK", "VER", "EACK"}
    /\ Ntohl(tx[1].seq) = c.SND.NXT /\ Ntohl(tx[1].ack) = c.RCV.CUR
    /\ Ntohs(tx[1].window) = c.RBUF.window /\ Ntohs(tx[1].dlen) = 0

\* C19: in OPEN a segment whose SEQ is outside [RCV.CUR + 1, RCV.CUR + 1 + RCV.MAX)
\* is answered with exactly one ACK carrying SND.NXT, RCV.CUR and RBUF.window,
\* invokes no callback and leaves the state, both rings, RCV.CUR, the EACK mask and
\* the timers unchanged.
C19_Unacceptable ==
    \A e \in Engines : \A d \in Unacceptable(e) :
        IsOpen(e) =>
            /\ AfterDatagram(e, d).halt = "none"
            /\ OneAck(AfterDatagram(e, d).tx, conn[e])
            /\ AfterDatagram(e, d).log = log[e]
            /\ AfterDatagram(e, d).c = conn[e]

\* The receive slots of e that its user has handed back with recv_ready and that
\* hold no buffer of the user now: the sequence number in the slot is below
\* RBUF.first, or the slot is not in use.
ReleasedSlots(e) ==
    {s \in DOMAIN conn[e].RBUF.rcv :
        /\ \E k \in 1..Len(log[e]) :
               IsApi(log[e][k], "recv_ready") /\ log[e][k].slot = s /\ log[e][k].st = "ER_OK"
        /\ \/ SEQ32_LT(conn[e].RBUF.rcv[s].seq, conn[e].RBUF.first)
           \/ ~conn[e].RBUF.rcv[s].inUse}

\* C20: recv_ready with a buffer that has already been released is rejected with
\* an error and changes nothing: RBUF.first, RBUF.last, RBUF.window and the flags
\* of every slot keep their values.
C20_DoubleRelease ==
    \A e \in Engines : \A s \in ReleasedSlots(e) :
        Live(e) =>
            /\ ARDP_RecvReady(Ctx(conn[e], Quiet, log[e]), s).halt = "none"
            /\ ARDP_RecvReady(Ctx(conn[e], Quiet, log[e]), s).st /= "ER_OK"
            /\ ARDP_RecvReady(Ctx(conn[e], Quiet, log[e]), s).c = conn[e]

-----------------------------------------------------------------------------
(* The EACK mask on the wire *)

\* The sequence numbers the mask of datagram d acknowledges selectively: bit k of
\* the word, counted from the most significant one, stands for ack + 2 + k.
Eacked(d) == {Add32(Ntohl(d.ack), 2 + k) : k \in NtohlMask(d.ackMsk)}

\* The segment numbered s sits in a receive slot of e that is in use, and the
\* user of e has not accepted the message it belongs to.
Buffered(e, s) ==
    /\ \E j \in DOMAIN conn[e].RBUF.rcv :
           conn[e].RBUF.rcv[j].inUse /\ conn[e].RBUF.rcv[j].seq = s
    /\ ~\E i \in RecvCbs(e) : log[e][i].ok /\ Sub32(s, log[e][i].seq) < log[e][i].fcnt

\* The segments with the EACK flag among those the last step has emitted.
EackSegments == {i \in 1..Len(wire) : ~wire[i].syn /\ "EACK" \in wire[i].flags}

\* C21: in every segment emitted with the EACK flag, each set bit k of the mask
\* (most significant bit first) stands for the sequence number ack + 2 + k, ack
\* being the RCV.CUR the segment carries, and that sequence number is held in a
\* receive slot of the sender that is in use and not yet delivered.
C21_EackBits ==
    \A i \in EackSegments : \A e \in Engines :
        Port(e) = Ntohs(wire[i].src) /\ halt[e] = "none" =>
            \A s \in Eacked(wire[i]) : Buffered(e, s)

-----------------------------------------------------------------------------
(* Rings whose size is no power of two: both users ask for a ring of OddRing
   segments, and the initial sequence numbers sit just below the wrap *)

OddRing == 3
WrapAccept == [Quiet EXCEPT !.segmax = OddRing]

WrapConnect == Connect("A", {OddRing})
WrapDeliverA == Deliver("A", {Quiet}, InOrder)
WrapDeliverB == Deliver("B", {WrapAccept}, InOrder)
WrapSend == ApiSend("A", MaxSends + 1, SndLens, {0}, {Quiet})
WrapReady == ApiRecvReady("B")

NextWrap == WrapConnect \/ WrapDeliverA \/ WrapDeliverB \/ WrapSend \/ WrapReady
SpecWrap == Fresh(RcvBuilds) /\ [][NextWrap]_vars

\* The sequence numbers of the data segments of e that are sent and not
\* acknowledged, SND.UNA up to SND.NXT - 1 (the SYN, numbered ISS, has no slot).
Outstanding(e) ==
    {Add32(conn[e].SND.UNA, k) : k \in 0..(Sub32(conn[e].SND.NXT, conn[e].SND.UNA) - 1)}
        \ {conn[e].SND.ISS}

\* The send slot of e that the segment numbered s was written to.
SlotOf(e, s) == conn[e].SBUF.snd[Trunc16(s % conn[e].SND.MAX)]

\* C22: whatever the initial sequence number and the ring size, segments that
\* are outstanding at the same time have ring slots of their own: every sequence
\* number that is sent and not acknowledged is still found in its slot of the
\* send ring, seq mod SND.MAX, also when SND.NXT has wrapped to 0 in between.
C22_DistinctSlots ==
    \A e \in Engines :
        IsOpen(e) =>
            \A s \in Outstanding(e) : Ntohl(SlotOf(e, s).hdr.seq) = s

-----------------------------------------------------------------------------
(* Whole calls of ARDP_Run: the timers are checked, then the socket is read *)

RunConnect == Connect("A", {UserSegmax})
RunCall == \E e \in Engines : Run(e, {Quiet})
RunSend == ApiSend("A", MaxSends, {1}, {0}, {Quiet})
RunReady == ApiRecvReady("B")

NextRun == RunConnect \/ RunCall \/ RunSend \/ RunReady
SpecRun == Fresh(RcvBuilds) /\ [][NextRun]_vars

\* What the next call of ARDP_Run on the handle of e returns when the timers of
\* due have expired: [x, rest, ms].
RunAfter(e, due) ==
    ARDP_Run(Ctx(conn[e], Quiet, log[e]), net[e], Deadlines(conn[e], due, Clock), Clock,
             e \in build.accepting, Iss(e), Port(e))

\* C23: one call of run with socket_ready = true handles every datagram that is
\* queued on the socket, in the order of arrival: when it returns, no datagram
\* that was queued at the call is left unread.
C23_RunDrains ==
    \A e \in Engines :
        halt[e] = "none" /\ OneRecord(e) /\ Running(RunAfter(e, {}).x) =>
            RunAfter(e, {}).rest = <<>>

-----------------------------------------------------------------------------
(* The wait hint of CheckTimers *)

\* The records on the list of a handle, as a sequence of engines: the handle of
\* each engine holds its own record, and a handle that has opened one connection
\* and accepted another holds two records that know nothing of each other, as
\* the records of A and B do.
Handles == {<<"A">>, <<"B">>, <<"A", "B">>}

\* The list of the handle hs when the timers of due have expired.
RecsOf(hs, due) ==
    [i \in 1..Len(hs) |->
        [x |-> Ctx(conn[hs[i]], Quiet, log[hs[i]]),
         when |-> Deadlines(conn[hs[i]], due, Clock)]]

\* deadline - now of the timers that are pending when CheckTimers has returned h.
PendingAfter(h) ==
    {SubT(WhenOf(h.recs[i].when, h.recs[i].x.c.timers[k], Clock), Clock) :
        <<i, k>> \in {p \in (1..Len(h.recs)) \X (1..4 * UserSegmax) :
                          /\ h.recs[p[1]].x.c.inList
                          /\ p[2] <= Len(h.recs[p[1]].x.c.timers)}}

NoHint(h) == PendingAfter(h) = {} /\ h.ms = ARDP_NO_TIMEOUT
MinHint(h) == h.ms \in PendingAfter(h) /\ \A d \in PendingAfter(h) : h.ms <= d

\* C24: the wait hint that run reports is the minimum of deadline - now over the
\* pending timers of all the connections of the handle, whatever their number,
\* and the no-timeout value when no timer is pending.
C24_WaitHint ==
    \A hs \in Handles : \A due \in {{}, {1}, {2}} :
        (\A i \in 1..Len(hs) : halt[hs[i]] = "none" /\ conn[hs[i]].inList) =>
            \/ \E i \in 1..Len(hs) : ~Running(CheckTimers(RecsOf(hs, due), Clock).recs[i].x)
            \/ NoHint(CheckTimers(RecsOf(hs, due), Clock))
            \/ MinHint(CheckTimers(RecsOf(hs, due), Clock))

-----------------------------------------------------------------------------
(* The receive window *)

\* The receive ring of e holds at least one segment.
RingInUse(e) == \E j \in DOMAIN conn[e].RBUF.rcv : conn[e].RBUF.rcv[j].inUse

\* The number of slots between RBUF.first and RBUF.last, both included.
Span(e) == Sub32(conn[e].RBUF.last, conn[e].RBUF.first) + 1

\* C25: after every AddRcvBuffer and every UpdateRcvBuffers, RBUF.window is
\* RCV.MAX - (RBUF.last - RBUF.first + 1) when the receive ring holds a segment
\* and RCV.MAX when it is empty, and it never leaves 0..RCV.MAX.
C25_RcvWindow ==
    \A e \in Engines :
        IsOpen(e) =>
            /\ conn[e].RBUF.window \in 0..conn[e].RCV.MAX
            /\ conn[e].RBUF.window =
                   IF RingInUse(e) THEN conn[e].RCV.MAX - Span(e) ELSE conn[e].RCV.MAX

-----------------------------------------------------------------------------
(* Malformed datagrams *)

\* The header lengths (in 16-bit words) a malformed segment may claim: that of a
\* header without mask words, and one word more than the peer's headers have.
WrongHlens == {ARDP_FIXED_HEADER_LEN \div 2, ForgedHlen + 1}

\* Segments without SYN that carry the ports of the record of e and a header
\* length that is not the one agreed for the connection.
BadHlen(e) ==
    {b \in {[d EXCEPT !.hlen = h] : d \in Arriving(e), h \in WrongHlens} :
        "SYN" \notin b.flags /\ b.hlen * 2 /= conn[e].rcvHdrLen}

\* Datagrams for port 0 whose flags are not exactly SYN|VER.
BadSyn(e) ==
    {[d EXCEPT !.dst = Htons(0), !.flags = f] :
        d \in {b \in Forged(e) : b.syn}, f \in {{"SYN", "VER", "ACK"}, {"SYN"}, {"ACK", "VER"}}}

\* C26: a malformed inbound datagram is dropped without effect: a segment without
\* SYN whose header length is not the agreed one, and a datagram for port 0 whose
\* flags are not exactly SYN|VER, invoke no callback, change no field of the
\* record and leave no new record on the list of the handle.
C26_MalformedDropped ==
    \A e \in Engines :
        halt[e] = "none" =>
            /\ \A d \in BadHlen(e) :
                   /\ AfterDatagram(e, d).halt = "none"
                   /\ AfterDatagram(e, d).log = log[e]
                   /\ AfterDatagram(e, d).c = conn[e]
            /\ \A d \in BadSyn(e) :
                   ~conn[e].inList =>
                       /\ AfterDatagram(e, d).halt = "none"
                       /\ AfterDatagram(e, d).log = log[e]
                       /\ ~AfterDatagram(e, d).c.inList

-----------------------------------------------------------------------------
(* ARDP_RecvReady on the oldest buffer *)

\* The slots of the message that starts in slot i of the receive ring of e.
MessageSlots(e, i) ==
    {(i + k) % conn[e].RCV.MAX : k \in 0..(conn[e].RBUF.rcv[i].fcnt - 1)}

\* The slots the user of e may hand back: the one that holds RBUF.first, when
\* every slot of its message is in use and delivered.
Releasable(e) ==
    {i \in DOMAIN conn[e].RBUF.rcv :
        /\ conn[e].RBUF.rcv[i].seq = conn[e].RBUF.first
        /\ i = Trunc16(conn[e].RBUF.first % conn[e].RCV.MAX)
        /\ conn[e].RBUF.rcv[i].fcnt \in 1..conn[e].RCV.MAX
        /\ \A j \in MessageSlots(e, i) :
               conn[e].RBUF.rcv[j].inUse /\ conn[e].RBUF.rcv[j].isDelivered}

RecvReadyAfter(e, i) == ARDP_RecvReady(Ctx(conn[e], Quiet, log[e]), i)

\* C27: ARDP_RecvReady on the buffer whose seq is RBUF.first, of a message of
\* n >= 1 slots that are all in use and delivered, returns ER_OK with no
\* assertion failing, clears inUse and isDelivered on exactly those n slots,
\* advances RBUF.first by n and recomputes RBUF.window.
C27_RecvReady ==
    \A e \in Engines :
        Live(e) =>
            \A i \in Releasable(e) :
                /\ RecvReadyAfter(e, i).halt = "none"
                /\ RecvReadyAfter(e, i).st = "ER_OK"
                /\ \A j \in DOMAIN conn[e].RBUF.rcv :
                       RecvReadyAfter(e, i).c.RBUF.rcv[j] =
                           IF j \in MessageSlots(e, i)
                           THEN [conn[e].RBUF.rcv[j] EXCEPT !.inUse = FALSE,
                                                            !.isDelivered = FALSE]
                           ELSE conn[e].RBUF.rcv[j]
                /\ RecvReadyAfter(e, i).c.RBUF.first =
                       Add32(conn[e].RBUF.first, conn[e].RBUF.rcv[i].fcnt)
                /\ RecvReadyAfter(e, i).c.RBUF.window =
                       IF SEQ32_LT(conn[e].RBUF.last, RecvReadyAfter(e, i).c.RBUF.first)
                       THEN conn[e].RCV.MAX
                       ELSE RcvWindow(RecvReadyAfter(e, i).c)

-----------------------------------------------------------------------------
(* A peer that falls silent: once its side of the connection is OPEN, B reads
   nothing more, and the retransmit timers of A expire one after the other, down
   to the last retry. *)

RetryConnect == Connect("A", {UserSegmax})
RetryDeliverA == Deliver("A", {Quiet}, InOrder)
RetryDeliverB == conn["B"].State /= "OPEN" /\ Deliver("B", {SndAccept}, InOrder)
RetryFire == Fire("A", {"RETRANSMIT_TIMER"}, {Quiet}, 0)
RetrySend == ApiSend("A", MaxSends, SndLens, {0}, {Quiet})

NextRetry == RetryConnect \/ RetryDeliverA \/ RetryDeliverB \/ RetryFire \/ RetrySend
SpecRetry == Fresh(RcvBuilds) /\ [][NextRetry]_vars

-----------------------------------------------------------------------------
(* The last retry of a retransmit timer *)

\* The retransmit timers of e that are on their last retry and belong to a send
\* slot that is in use.
LastRetries(e) ==
    {t \in {conn[e].timers[i] : i \in 1..Len(conn[e].timers)} :
        /\ t.type = "RETRANSMIT_TIMER" /\ t.retry = 1
        /\ InSnd(conn[e], t.context)
        /\ conn[e].SBUF.snd[t.context].inUse
        /\ conn[e].SBUF.snd[t.context].timer = t.id}

\* The send slots of the message the slot at index belongs to.
SndMessageSlots(e, index) ==
    LET h == conn[e].SBUF.snd[index].hdr
    IN  IF "FRAG" \in h.flags
        THEN {Trunc16(Add32(Ntohl(h.som), k) % conn[e].SND.MAX) : k \in 0..(Ntohs(h.fcnt) - 1)}
        ELSE {index}

\* The SendCb(fail) the user expects for the message the slot at index belongs to.
GiveUpCb(e, index) ==
    LET slots == SndMessageSlots(e, index)
    IN  [cb |-> "SendCb", buf |-> conn[e].SBUF.snd[index].data,
         len |-> IF "FRAG" \in conn[e].SBUF.snd[index].hdr.flags
                 THEN conn[e].SBUF.maxDlen * (Cardinality(slots) - 1)
                      + Ntohs(conn[e].SBUF.snd[Trunc16(Add32(Ntohl(conn[e].SBUF.snd[index].hdr.som),
                            Cardinality(slots) - 1) % conn[e].SND.MAX)].hdr.dlen)
                 ELSE conn[e].SBUF.snd[index].datalen,
         status |-> "ER_FAIL"]

\* C28: when the retransmit timer of a send slot fires with retry = 1, the message
\* of the slot is abandoned as a whole: each of its slots ends not in use and
\* without a retransmit timer, SBUF.pending goes down by the number of its slots,
\* no slot of another message is modified, and SendCb(fail) is invoked exactly
\* once, with the buffer and the length of the message.
C28_GiveUp ==
    \A e \in Engines :
        IsOpen(e) =>
            \A t \in LastRetries(e) :
                /\ AfterTimer(e, t.id, Quiet).halt = "none"
                /\ AfterTimer(e, t.id, Quiet).log = Append(log[e], GiveUpCb(e, t.context))
                /\ AfterTimer(e, t.id, Quiet).c.SBUF.pending =
                       conn[e].SBUF.pending - Cardinality(SndMessageSlots(e, t.context))
                /\ \A j \in DOMAIN conn[e].SBUF.snd :
                       IF j \in SndMessageSlots(e, t.context)
                       THEN /\ ~AfterTimer(e, t.id, Quiet).c.SBUF.snd[j].inUse
                            /\ AfterTimer(e, t.id, Quiet).c.SBUF.snd[j].timer = NoTimer
                       ELSE AfterTimer(e, t.id, Quiet).c.SBUF.snd[j] = conn[e].SBUF.snd[j]

-----------------------------------------------------------------------------
(* The EACK mask of the record *)

\* The segment numbered s is held in a receive slot of e ahead of RCV.CUR.
OutOfOrder(e, s) ==
    /\ SEQ32_LT(conn[e].RCV.CUR, s)
    /\ \E j \in DOMAIN conn[e].RBUF.rcv :
           conn[e].RBUF.rcv[j].inUse /\ conn[e].RBUF.rcv[j].seq = s

\* The bits the mask of e has to hold: bit k, counted from the most significant
\* one, for every segment RCV.CUR + 2 + k that is held out of order.
MaskWanted(e) ==
    {k \in 0..(conn[e].RCV.MAX - 1) : OutOfOrder(e, Add32(conn[e].RCV.CUR, 2 + k))}

\* C29: after AddRcvBuffer has stored a segment out of order or advanced RCV.CUR,
\* bit k of the EACK mask is set if and only if the segment RCV.CUR + 2 + k is
\* buffered out of order: an advance by d shifts the mask left by d bits.
C29_RcvMask ==
    \A e \in Engines : IsOpen(e) => conn[e].rcvMsk.mask = MaskWanted(e)

-----------------------------------------------------------------------------
(* An inbound EACK *)

\* The ring index of the send slot of e for the sequence number s.
SndIndex(e, s) == Trunc16(s % conn[e].SND.MAX)

\* The bits an EACK for e may carry: bit k stands for SND.UNA + 1 + k, a segment
\* that was sent, is not acknowledged, and sits in its slot with its timer armed.
EackBits(e) ==
    {k \in 0..(conn[e].SND.MAX - 2) :
        LET s == Add32(conn[e].SND.UNA, 1 + k)
        IN  /\ SEQ32_LT(s, conn[e].SND.NXT)
            /\ conn[e].SBUF.snd[SndIndex(e, s)].inUse
            /\ Ntohl(conn[e].SBUF.snd[SndIndex(e, s)].hdr.seq) = s
            /\ conn[e].SBUF.snd[SndIndex(e, s)].timer \in TimerIds(conn[e])}

\* The segment the peer of e sends when it holds the segments of bits out of
\* order and still waits for SND.UNA.
Eack(e, bits) ==
    [Datagram(FALSE, {"ACK", "EACK", "VER"}, conn[e].rcvHdrLen \div 2,
              Htons(conn[e].foreign), Htons(conn[e].local), 0,
              Htonl(Add32(conn[e].RCV.CUR, 1)), Htonl(Sub32(conn[e].SND.UNA, 1)),
              Htons(conn[e].SND.MAX))
        EXCEPT !.ackMsk = HtonlMask(bits)]

\* The send slots the EACK with bits names.
EackedSlots(e, bits) == {SndIndex(e, Add32(conn[e].SND.UNA, 1 + k)) : k \in bits}

RetransmitIds(c) ==
    {c.timers[i].id : i \in {j \in 1..Len(c.timers) : c.timers[j].type = "RETRANSMIT_TIMER"}}

\* C30: on an inbound EACK the retransmit timer that is cancelled for a set bit k
\* is the one of the send slot with ring index (SND.UNA + 1 + k) mod SND.MAX,
\* also when the index wraps past the end of the send array, and the timers of
\* the slots whose bit is clear are left alone.
C30_EackCancels ==
    \A e \in Engines :
        IsOpen(e) /\ conn[e].remoteMskSz = 1 =>
            \A bits \in SUBSET EackBits(e) :
                bits /= {} =>
                    /\ AfterDatagram(e, Eack(e, bits)).halt = "none"
                    /\ \A j \in DOMAIN conn[e].SBUF.snd :
                           AfterDatagram(e, Eack(e, bits)).c.SBUF.snd[j].timer =
                               IF j \in EackedSlots(e, bits) THEN NoTimer
                               ELSE conn[e].SBUF.snd[j].timer
                    /\ RetransmitIds(AfterDatagram(e, Eack(e, bits)).c) =
                           RetransmitIds(conn[e])
                               \ {conn[e].SBUF.snd[j].timer : j \in EackedSlots(e, bits)}

-----------------------------------------------------------------------------
(* The retry of a deferred delivery *)

\* The RECV timers of e that belong to a receive slot holding a deferred message.
Deferred(e) ==
    {t \in {conn[e].timers[i] : i \in 1..Len(conn[e].timers)} :
        /\ t.type = "RECV_TIMER"
        /\ t.context \in DOMAIN conn[e].RBUF.rcv
        /\ conn[e].RBUF.rcv[t.context].inUse
        /\ conn[e].RBUF.rcv[t.context].timer = t.id
        /\ conn[e].RBUF.rcv[t.context].fcnt \in 1..conn[e].RCV.MAX}

\* A whole message that starts with the segment s waits in the receive ring of e.
WholeAt(e, s) ==
    LET max == conn[e].RCV.MAX
        first == conn[e].RBUF.rcv[Trunc16(s % max)]
    IN  /\ first.inUse /\ first.seq = s /\ ~first.isDelivered
        /\ first.fcnt \in 1..max
        /\ \A k \in 0..(first.fcnt - 1) :
               LET r == conn[e].RBUF.rcv[Trunc16(Add32(s, k) % max)]
               IN  r.inUse /\ r.seq = Add32(s, k) /\ ~r.isDelivered /\ r.fcnt = first.fcnt

\* The first segments of the whole messages that follow one another from s on,
\* n of them at most.
RECURSIVE Followers(_, _, _)
Followers(e, s, n) ==
    IF n = 0 \/ ~WholeAt(e, s) THEN <<>>
    ELSE <<s>> \o Followers(e, Add32(s, conn[e].RBUF.rcv[Trunc16(s % conn[e].RCV.MAX)].fcnt),
                            n - 1)

\* What the handler of the RECV timer t has to offer when the user accepts: the
\* deferred message and then its contiguous successors.
Offer(e, t) ==
    <<conn[e].RBUF.rcv[t.context].seq>>
        \o Followers(e, Add32(conn[e].RBUF.rcv[t.context].seq,
                              conn[e].RBUF.rcv[t.context].fcnt), conn[e].RCV.MAX)

\* The sequence numbers of the RecvCb calls of the context x that are new to e.
Offered(e, x) ==
    LET new == SubSeq(x.log, Len(log[e]) + 1, Len(x.log))
        cbs == SelectSeq(new, LAMBDA ev : IsCb(ev, "RecvCb"))
    IN  [i \in 1..Len(cbs) |-> cbs[i].seq]

AcceptOnce == [Quiet EXCEPT !.ans = <<TRUE, FALSE>>]

\* C31: when the retry of a RECV timer succeeds, the handler offers to RecvCb the
\* buffered messages that follow the deferred one contiguously, in ascending
\* order from the next sequence number on, and stops at the first gap or at the
\* first refusal, for which it arms a new RECV timer.
C31_FlushSuccessors ==
    \A e \in Engines :
        Live(e) =>
            \A t \in Deferred(e) :
                /\ AfterTimer(e, t.id, Quiet).halt = "none"
                /\ Offered(e, AfterTimer(e, t.id, Quiet)) = Offer(e, t)
                /\ AfterTimer(e, t.id, AcceptOnce).halt = "none"
                /\ Offered(e, AfterTimer(e, t.id, AcceptOnce)) =
                       SubSeq(Offer(e, t), 1, IF Len(Offer(e, t)) > 2 THEN 2
                                              ELSE Len(Offer(e, t)))
                /\ Len(Offer(e, t)) >= 2 =>
                       \E u \in {AfterTimer(e, t.id, AcceptOnce).c.timers[i] :
                                    i \in 1..Len(AfterTimer(e, t.id, AcceptOnce).c.timers)} :
                           /\ u.type = "RECV_TIMER"
                           /\ u.context = Trunc16(Offer(e, t)[2] % conn[e].RCV.MAX)

-----------------------------------------------------------------------------
(* The last fragment of a message *)

\* The datagrams waiting at e that are the last fragment of a message of several
\* fragments, arrive in order, find the earlier fragments buffered, and have
\* nothing buffered behind them.
LastFragments(e) ==
    {d \in Arriving(e) :
        /\ ~d.syn /\ Ntohs(d.dlen) > 0 /\ Ntohs(d.fcnt) \in 2..conn[e].RCV.MAX
        /\ d.hlen * 2 = conn[e].rcvHdrLen
        /\ Ntohl(d.seq) = Add32(Ntohl(d.som), Ntohs(d.fcnt) - 1)
        /\ Ntohl(d.seq) = Add32(conn[e].RCV.CUR, 1)
        /\ \A k \in 0..(Ntohs(d.fcnt) - 2) :
               LET r == conn[e].RBUF.rcv[Trunc16(Add32(Ntohl(d.som), k) % conn[e].RCV.MAX)]
               IN  /\ r.inUse /\ r.seq = Add32(Ntohl(d.som), k)
                   /\ r.som = Ntohl(d.som) /\ r.fcnt = Ntohs(d.fcnt)
        /\ \A j \in DOMAIN conn[e].RBUF.rcv :
               conn[e].RBUF.rcv[j].inUse => SEQ32_LT(conn[e].RBUF.rcv[j].seq, Ntohl(d.seq))}

\* The receive slots of the message the datagram d ends.
FragmentSlots(e, d) ==
    {Trunc16(Add32(Ntohl(d.som), k) % conn[e].RCV.MAX) : k \in 0..(Ntohs(d.fcnt) - 1)}

\* C32: when the last fragment of a message arrives, all its fragments are
\* buffered and RecvCb accepts the message, exactly the slots of the message
\* become delivered; the flag of every other slot keeps its value, and no slot
\* is marked delivered that is not in use.
C32_MarkDelivered ==
    \A e \in Engines :
        IsOpen(e) =>
            \A d \in LastFragments(e) :
                /\ AfterDatagram(e, d).halt = "none"
                /\ \A j \in DOMAIN conn[e].RBUF.rcv :
                       /\ AfterDatagram(e, d).c.RBUF.rcv[j].isDelivered =
                              IF j \in FragmentSlots(e, d) THEN TRUE
                              ELSE conn[e].RBUF.rcv[j].isDelivered
                       /\ ~conn[e].RBUF.rcv[j].isDelivered
                              /\ AfterDatagram(e, d).c.RBUF.rcv[j].isDelivered
                              => AfterDatagram(e, d).c.RBUF.rcv[j].inUse

-----------------------------------------------------------------------------
(* Segments AddRcvBuffer has to reject *)

\* The data segments the peer of e may send next: an unfragmented message of dlen
\* bytes with a sequence number of the window that starts after RCV.CUR.
DataFor(e, dlens) ==
    {[Datagram(FALSE, {"ACK", "VER"}, conn[e].rcvHdrLen \div 2,
               Htons(conn[e].foreign), Htons(conn[e].local), Htons(dlen),
               Htonl(Add32(conn[e].RCV.CUR, k)), Htonl(Sub32(conn[e].SND.UNA, 1)),
               Htons(conn[e].window))
         EXCEPT !.som = Htonl(Add32(conn[e].RCV.CUR, k)), !.fcnt = Htons(1), !.buf = 9]
        : k \in 1..(conn[e].RCV.MAX - 1), dlen \in dlens}

\* The window is full and the segment fills no gap below RBUF.last.
WindowFull(e, d) == conn[e].RBUF.window = 0 /\ ~SEQ32_LT(Ntohl(d.seq), conn[e].RBUF.last)
TooLong(e, d) == Ntohs(d.dlen) > conn[e].RBUF.MAX
SlotTaken(e, d) == conn[e].RBUF.rcv[Trunc16(Ntohl(d.seq) % conn[e].RCV.MAX)].inUse

\* The segments of DataFor that AddRcvBuffer has to reject.
Rejects(e) ==
    {d \in DataFor(e, {1, conn[e].RBUF.MAX + 1}) :
        WindowFull(e, d) \/ TooLong(e, d) \/ SlotTaken(e, d)}

\* C33: AddRcvBuffer rejects a segment when the window is full and the segment
\* fills no gap, when its data is longer than RBUF.MAX, and when its slot is in
\* use: no ACK is sent, and the receive ring, RBUF.first, RBUF.last, RBUF.window,
\* RCV.CUR and the EACK mask keep their values.
C33_Rejects ==
    \A e \in Engines :
        IsOpen(e) =>
            \A d \in Rejects(e) :
                /\ AfterDatagram(e, d).halt = "none"
                /\ AfterDatagram(e, d).tx = <<>>
                /\ AfterDatagram(e, d).c.RBUF = conn[e].RBUF
                /\ AfterDatagram(e, d).c.RCV = conn[e].RCV
                /\ AfterDatagram(e, d).c.rcvMsk = conn[e].rcvMsk

-----------------------------------------------------------------------------
(* One firing of the WINDOW_CHECK timer *)

\* The peer has been silent for the persist timeout, not yet for the link timeout.
Silent == [Quiet EXCEPT !.idle = "persist"]

WindowChecks(e) ==
    {t \in {conn[e].timers[i] : i \in 1..Len(conn[e].timers)} : t.type = "WINDOW_CHECK_TIMER"}

\* The NUL probes among the segments the context x has sent.
Probes(x) == SelectSeq(x.tx, LAMBDA d : ~d.syn /\ "NUL" \in d.flags)

\* The probe an engine in the state c sends.
ProbeOf(c) ==
    Datagram(FALSE, {"ACK", "VER", "NUL"}, c.sndHdrLen \div 2, Htons(c.local),
             Htons(c.foreign), 0, Htonl(c.SND.NXT), Htonl(c.RCV.CUR),
             Htons(Trunc16(c.RBUF.window)))

\* C34: in one firing of the WINDOW_CHECK timer the handler either disconnects or
\* probes, never both: past the link timeout it disconnects and sends no NUL; a
\* NUL with seq = SND.NXT, ack = RCV.CUR and the window RBUF.window is sent only
\* when the link timeout has not been reached and the persist timeout has, or
\* the window of the peer is below minSendWindow.
C34_DisconnectOrProbe ==
    \A e \in Engines :
        IsOpen(e) =>
            \A t \in WindowChecks(e) :
                /\ AfterTimer(e, t.id, LinkDown).c.State /= "OPEN"
                /\ Probes(AfterTimer(e, t.id, LinkDown)) = <<>>
                /\ AfterTimer(e, t.id, Silent).c.State = "OPEN"
                /\ [i \in 1..Len(Probes(AfterTimer(e, t.id, Silent))) |->
                       [Probes(AfterTimer(e, t.id, Silent))[i] EXCEPT !.ackMsk = {}]]
                       = <<ProbeOf(conn[e])>>
                /\ Len(Probes(AfterTimer(e, t.id, Quiet))) =
                       IF conn[e].window < conn[e].minSendWindow THEN 1 ELSE 0

-----------------------------------------------------------------------------
(* The window the peer advertises *)

\* The windows a segment for e may advertise: none, the cached one, another one.
Windows(e) == {0, conn[e].window, 1, 2}

\* An acceptable segment without data for e, a bare ACK or a NUL, that
\* advertises the window w.
Advert(e, flags, w) ==
    Datagram(FALSE, flags, conn[e].rcvHdrLen \div 2, Htons(conn[e].foreign),
             Htons(conn[e].local), 0, Htonl(Add32(conn[e].RCV.CUR, 1)),
             Htonl(Sub32(conn[e].SND.UNA, 1)), Htons(w))

Adverts(e) ==
    {Advert(e, f, w) : f \in {{"ACK", "VER"}, {"ACK", "VER", "NUL"}}, w \in Windows(e)}

\* The SendWindowCb calls the engine e makes in the context x.
WindowCbs(e, x) ==
    SelectSeq(SubSeq(x.log, Len(log[e]) + 1, Len(x.log)), LAMBDA ev : IsCb(ev, "SendWindowCb"))

\* C35: after an OPEN connection has processed an acceptable segment, its copy
\* of the peer's window is the WINDOW field of the segment, with or without a
\* SendWindowCb installed; SendWindowCb(window, status) is called exactly when
\* the value changed and a callback is installed, with ER_ARDP_BACKPRESSURE for
\* the window 0 and ER_OK otherwise.
C35_PeerWindow ==
    \A e \in Engines :
        IsOpen(e) =>
            \A d \in Adverts(e) :
                /\ AfterDatagram(e, d).halt = "none"
                /\ AfterDatagram(e, d).c.window = Ntohs(d.window)
                /\ WindowCbs(e, AfterDatagram(e, d)) =
                       IF build.windowCb /\ Ntohs(d.window) /= conn[e].window
                       THEN <<[cb |-> "SendWindowCb", window |-> Ntohs(d.window),
                               status |-> IF Ntohs(d.window) = 0
                                          THEN "ER_ARDP_BACKPRESSURE" ELSE "ER_OK"]>>
                       ELSE <<>>

-----------------------------------------------------------------------------
(* Send slots and their retransmit timers *)

RetransmitTimers(c) ==
    {c.timers[i] : i \in {j \in 1..Len(c.timers) : c.timers[j].type = "RETRANSMIT_TIMER"}}

\* C36: a send slot that is not in use has no pending retransmit timer, and every
\* RETRANSMIT timer of a connection belongs to a slot that is in use, so that
\* the assertion of RetransmitTimerHandler on its slot never fails.
C36_TimersInUse ==
    \A e \in Engines :
        /\ halt[e] /= "assert:RetransmitTimerHandler:inUse"
        /\ Live(e) =>
               /\ \A j \in DOMAIN conn[e].SBUF.snd :
                      ~conn[e].SBUF.snd[j].inUse =>
                          conn[e].SBUF.snd[j].timer \notin RetransmitIds(conn[e])
               /\ \A t \in RetransmitTimers(conn[e]) :
                      InSnd(conn[e], t.context) /\ conn[e].SBUF.snd[t.context].inUse

-----------------------------------------------------------------------------
(* The segments in flight after a send *)

\* The last thing that happened at e is a call of ARDP_Send that returned ER_OK.
JustSent(e) ==
    /\ log[e] /= <<>>
    /\ IsApi(log[e][Len(log[e])], "send")
    /\ log[e][Len(log[e])].st = "ER_OK"

\* C37: right after a send() that returned ok, the number of segments in flight,
\* SND.NXT - SND.UNA, is not above the window the peer has advertised, also for a
\* fragmented message sent while earlier segments are unacknowledged.
C37_InFlight ==
    \A e \in Engines :
        IsOpen(e) /\ JustSent(e) =>
            Sub32(conn[e].SND.NXT, conn[e].SND.UNA) <= conn[e].window

-----------------------------------------------------------------------------
(* Records in state CLOSED *)

\* The record of e is in the connection list of its handle in state CLOSED.
ClosedInList(e) == Live(e) /\ conn[e].State = "CLOSED"

\* The pending timers of a record whose handlers delete the record.
DestroyTimers(c) ==
    {c.timers[i] : i \in {j \in 1..Len(c.timers) :
        c.timers[j].type \in {"CONNECT_TIMER", "DISCONNECT_TIMER"}}}

\* A record that is CLOSED in the list has a CONNECT or DISCONNECT timer pending.
ClosedHasTimer ==
    \A e \in Engines : ClosedInList(e) => DestroyTimers(conn[e]) /= {}

\* C38: a connection record whose state becomes CLOSED is eventually removed from
\* the connection list of its handle when expired timers are fired, whichever
\* path led to CLOSED.
C38_ClosedRemoved ==
    \A e \in Engines : ClosedInList(e) ~> ~ClosedInList(e)

-----------------------------------------------------------------------------
(* The timers of an OPEN record *)

\* The pending timers of type type of a record.
TimersOfType(c, type) ==
    {c.timers[i].id : i \in {j \in 1..Len(c.timers) : c.timers[j].type = type}}

\* C39: an OPEN connection has exactly one WINDOW_CHECK timer and no CONNECT
\* timer in its timer list, whatever handshake path led to OPEN, so that
\* ConnectTimerHandler never runs on an OPEN connection.
C39_OpenTimers ==
    \A e \in Engines :
        IsOpen(e) =>
            /\ Cardinality(TimersOfType(conn[e], "WINDOW_CHECK_TIMER")) = 1
            /\ TimersOfType(conn[e], "CONNECT_TIMER") = {}

-----------------------------------------------------------------------------
(* The RECV timers of a connection *)

RecvTimers(c) ==
    {c.timers[i] : i \in {j \in 1..Len(c.timers) : c.timers[j].type = "RECV_TIMER"}}

\* The first sequence numbers of the messages the user of e has accepted.
AcceptedSoms(e) == {log[e][i].seq : i \in {k \in RecvCbs(e) : log[e][k].ok}}

\* The first sequence numbers of the messages with a segment in the receive ring
\* of e that the user has not accepted.
Unaccepted(e) ==
    {conn[e].RBUF.rcv[j].som : j \in {k \in DOMAIN conn[e].RBUF.rcv :
        conn[e].RBUF.rcv[k].inUse /\ conn[e].RBUF.rcv[k].som \notin AcceptedSoms(e)}}

\* The timer t of e belongs to the first segment of the oldest message that the
\* user has not accepted.
OnOldest(e, t) ==
    /\ t.context \in DOMAIN conn[e].RBUF.rcv
    /\ conn[e].RBUF.rcv[t.context].inUse
    /\ conn[e].RBUF.rcv[t.context].seq = conn[e].RBUF.rcv[t.context].som
    /\ conn[e].RBUF.rcv[t.context].seq \in Unaccepted(e)
    /\ \A s \in Unaccepted(e) : ~SEQ32_LT(s, conn[e].RBUF.rcv[t.context].seq)

\* C40: a connection has at most one pending RECV timer at any time, and a
\* pending one refers to the lowest-sequence message that the consumer has not
\* accepted yet; a later arrival, fragmented or not, arms no second RECV timer.
C40_OneRecvTimer ==
    \A e \in Engines :
        Live(e) =>
            /\ Cardinality(RecvTimers(conn[e])) <= 1
            /\ \A t \in RecvTimers(conn[e]) : OnOldest(e, t)

-----------------------------------------------------------------------------
(* Two engines joined by a channel that loses and reorders nothing, with users
   that accept every connection and every buffer and hand every buffer back *)

E2EConnect == Connect("A", {UserSegmax})
E2EDeliverA == Deliver("A", {Quiet}, InOrder)
E2EDeliverB == Deliver("B", {Quiet}, InOrder)
E2ESend == ApiSend("A", MaxSends, RcvLens, {0}, {Quiet})
E2EReady == ApiRecvReady("B")

NextE2E == E2EConnect \/ E2EDeliverA \/ E2EDeliverB \/ E2ESend \/ E2EReady
SpecE2E ==
    /\ Fresh(Builds) /\ [][NextE2E]_vars
    /\ WF_vars(E2EDeliverA) /\ WF_vars(E2EDeliverB) /\ WF_vars(E2EReady)

ConnectCalled == \E i \in 1..Len(log["A"]) : IsApi(log["A"][i], "connect")
AcceptedData ==
    \E i \in 1..Len(log["B"]) :
        IsCb(log["B"][i], "AcceptCb") /\ log["B"][i].buf = 1 /\ log["B"][i].len = 1
ConnectedOk(e) ==
    /\ \E i \in ConnectCbs(e) : log[e][i].status = "ER_OK"
    /\ conn[e].inList /\ conn[e].State = "OPEN"
SendReturnedOk(k) == \E i \in SentOk("A") : log["A"][i].buf = k
RecvCbWith(k) == \E i \in RecvCbs("B") : log["B"][i].buf = k
SendCbOk(k) == \E i \in SendCbsOf("A", k) : log["A"][i].status = "ER_OK"
SomeHalted == \E e \in Engines : halt[e] /= "none"

\* C9: over a loss-free fair channel, with B passive and accepting and consumers
\* that always accept, A's connect(data) leads to B's AcceptCb with the data and
\* to OPEN with ConnectCb(ok) on both sides, and every later send(msg, ttl = 0)
\* that A makes leads to B's RecvCb with msg and then to A's SendCb(ok). Only
\* runs in which both engines keep running are held to it.
C9_EndToEnd ==
    /\ [](ConnectCalled => <>(AcceptedData \/ SomeHalted))
    /\ [](ConnectCalled => <>((ConnectedOk("A") /\ ConnectedOk("B")) \/ SomeHalted))
    /\ \A k \in 1..MaxSends :
           [](SendReturnedOk(k) => <>((RecvCbWith(k) /\ <>SendCbOk(k)) \/ SomeHalted))

=============================================================================
